---- MODULE Spec2Model ----
(***************************************************************************)
(* State-machine model of the school intelligence pipeline:                *)
(*   data_loader.py                 DataLoader (two CSV feeds merged on    *)
(*                                  URN, in-memory indexes)                *)
(*   school_intelligence_service.py SimpleCache and                        *)
(*                                  SchoolIntelligenceService              *)
(* Text values whose content the code inspects (identifiers, names,        *)
(* sources) are sequences of one-character strings; None is the value      *)
(* None below.  Time is counted in whole hours.                            *)
(***************************************************************************)
EXTENDS Integers, Sequences, FiniteSets, TLC

VARIABLES
    feedA,              \* rows of the GIAS (contact) CSV file
    feedB,              \* rows of the financial CSV file
    schools_cache,      \* DataLoader._schools_cache: NoSchools or sequence of School
    schools_by_name,    \* DataLoader._schools_by_name: name -> position in schools_cache
    schools_by_urn,     \* DataLoader._schools_by_urn: urn -> position in schools_cache
    cache,              \* SimpleCache directory: identifier -> file content
    now,                \* datetime.now(), in hours
    last,               \* what the last operation was given and what it returned
    loader_source,      \* DataLoader.source: the data-source selector
    threads             \* where each concurrent caller of the DataLoader stands

vars == <<feedA, feedB, schools_cache, schools_by_name, schools_by_urn, cache, now, last,
          loader_source, threads>>

(***************************************************************************)
(* Text                                                                    *)
(***************************************************************************)
None == <<"None">>

EmptyStr == <<>>

IsNone(v) == v = None

\* str.isspace for the characters of the model's alphabet
IsSpace(c) == c \in {" ", "\t"}

IsDigit(c) == c \in {"0", "1", "2", "3", "4", "5", "6", "7", "8", "9"}

DigitVal(c) ==
    CASE c = "0" -> 0 [] c = "1" -> 1 [] c = "2" -> 2 [] c = "3" -> 3
      [] c = "4" -> 4 [] c = "5" -> 5 [] c = "6" -> 6 [] c = "7" -> 7
      [] c = "8" -> 8 [] c = "9" -> 9

DigitChar(d) ==
    CASE d = 0 -> "0" [] d = 1 -> "1" [] d = 2 -> "2" [] d = 3 -> "3"
      [] d = 4 -> "4" [] d = 5 -> "5" [] d = 6 -> "6" [] d = 7 -> "7"
      [] d = 8 -> "8" [] d = 9 -> "9"

\* str.lower, character by character
LowerChar(c) ==
    CASE c = "A" -> "a" [] c = "E" -> "e" [] c = "F" -> "f" [] c = "I" -> "i"
      [] c = "N" -> "n" [] c = "O" -> "o" [] c = "S" -> "s" [] c = "T" -> "t"
      [] c = "Y" -> "y"
      [] OTHER -> c

Lower(s) == [i \in 1..Len(s) |-> LowerChar(s[i])]

RECURSIVE LStrip(_)
LStrip(s) == IF s # <<>> /\ IsSpace(Head(s)) THEN LStrip(Tail(s)) ELSE s

RECURSIVE RStrip(_)
RStrip(s) ==
    IF s # <<>> /\ IsSpace(s[Len(s)]) THEN RStrip(SubSeq(s, 1, Len(s) - 1)) ELSE s

\* str.strip()
Strip(s) == RStrip(LStrip(s))

\* str.startswith
StartsWith(s, prefix) ==
    /\ Len(s) >= Len(prefix)
    /\ SubSeq(s, 1, Len(prefix)) = prefix

\* Python truthiness of an Optional[str]
Truthy(v) == ~IsNone(v) /\ v # EmptyStr

\* Python's  a or b  on Optional[str]
Or(a, b) == IF Truthy(a) THEN a ELSE b

RECURSIVE DigitsValue(_)
DigitsValue(s) ==
    IF s = <<>> THEN 0 ELSE 10 * DigitsValue(SubSeq(s, 1, Len(s) - 1)) + DigitVal(s[Len(s)])

RECURSIVE NatToStr(_)
NatToStr(n) == IF n < 10 THEN <<DigitChar(n)>> ELSE NatToStr(n \div 10) \o <<DigitChar(n % 10)>>

\* str(int)
IntToStr(n) == IF n < 0 THEN <<"-">> \o NatToStr(0 - n) ELSE NatToStr(n)

AllDigits(s) == \A i \in 1..Len(s) : IsDigit(s[i])

\* position of the first "." of s, 0 when there is none
RECURSIVE DotPos(_, _)
DotPos(s, i) == IF i > Len(s) THEN 0 ELSE IF s[i] = "." THEN i ELSE DotPos(s, i + 1)

(***************************************************************************)
(* float(text): surrounding whitespace is ignored, then an optional sign,  *)
(* then "nan", "inf", "infinity" in any case, or decimal digits with at    *)
(* most one point and at least one digit.  The result is                   *)
(*   [kind |-> "num", int |-> the value truncated toward zero,             *)
(*                    cents |-> the value in hundredths (two decimals)]    *)
(*   [kind |-> "nan"], [kind |-> "inf"]   the non-finite floats            *)
(*   [kind |-> "err"]                     float raises ValueError          *)
(* neg is the sign.  (Exponents and digit-group underscores are outside    *)
(* the alphabet.)                                                          *)
(***************************************************************************)
\* the first two decimals of the fraction digits fp, as a number
Hundredths(fp) == DigitsValue(SubSeq(fp \o <<"0", "0">>, 1, 2))

FloatOfBody(b, neg) ==
    LET low == Lower(b)
        dot == DotPos(b, 1)
        ip == IF dot = 0 THEN b ELSE SubSeq(b, 1, dot - 1)
        fp == IF dot = 0 THEN <<>> ELSE SubSeq(b, dot + 1, Len(b))
        abs == 100 * DigitsValue(ip) + Hundredths(fp)
    IN  IF low = <<"n", "a", "n">> THEN [kind |-> "nan", int |-> 0, cents |-> 0, neg |-> neg]
        ELSE IF low = <<"i", "n", "f">> \/ low = <<"i", "n", "f", "i", "n", "i", "t", "y">>
             THEN [kind |-> "inf", int |-> 0, cents |-> 0, neg |-> neg]
        ELSE IF AllDigits(ip) /\ AllDigits(fp) /\ Len(ip) + Len(fp) > 0
             THEN [kind |-> "num",
                   int |-> IF neg THEN 0 - DigitsValue(ip) ELSE DigitsValue(ip),
                   cents |-> IF neg THEN 0 - abs ELSE abs,
                   neg |-> neg]
        ELSE [kind |-> "err", int |-> 0, cents |-> 0, neg |-> neg]

ParseFloat(s) ==
    LET t == Strip(s)
    IN  IF t = <<>> THEN [kind |-> "err", int |-> 0, cents |-> 0, neg |-> FALSE]
        ELSE IF Head(t) = "-" THEN FloatOfBody(Tail(t), TRUE)
        ELSE IF Head(t) = "+" THEN FloatOfBody(Tail(t), FALSE)
        ELSE FloatOfBody(t, FALSE)

(***************************************************************************)
(* DataLoader._clean_urn.  The result is [raised, value]: raised is TRUE   *)
(* when int(float(urn)) raises OverflowError, which the except clause      *)
(* (ValueError, TypeError) does not catch.                                 *)
(***************************************************************************)
Returned(v) == [raised |-> FALSE, value |-> v]

Raised == [raised |-> TRUE, value |-> None]

clean_urn(urn) ==
    IF IsNone(urn) \/ urn = EmptyStr \/ Lower(urn) = <<"n", "a", "n">>
    THEN Returned(None)
    ELSE LET f == ParseFloat(urn)
         IN  CASE f.kind = "num" -> Returned(IntToStr(f.int))
               [] f.kind = "inf" -> Raised               \* OverflowError
               [] f.kind = "nan" -> Returned(Strip(urn)) \* int(nan): ValueError
               [] OTHER -> Returned(Strip(urn))          \* float(): ValueError

(***************************************************************************)
(* Rows and Schools                                                        *)
(***************************************************************************)
\* a CSV row is a dict: column name -> text; row.get(key) is None when absent
Get(row, key) == IF key \in DOMAIN row THEN row[key] ELSE None

EmptyRow == <<>>

\* Optional[OfstedData] of a School; present = FALSE is None
NoOfsted == [present |-> FALSE, rating |-> None, areas_for_improvement |-> <<>>]

(***************************************************************************)
(* Numbers.  An Optional[float] or Optional[int] is a record of the shape  *)
(* float(text) gives, of kind "none" when it is None.                      *)
(***************************************************************************)
Absent == [kind |-> "none", int |-> 0, cents |-> 0, neg |-> FALSE]

IntValue(n) == [kind |-> "num", int |-> n, cents |-> 100 * n, neg |-> n < 0]

\* DataLoader._safe_float: float(value) gives nan and inf as floats
safe_float(value) ==
    IF IsNone(value) \/ value = EmptyStr \/ Lower(value) = <<"n", "a", "n">>
    THEN Returned(Absent)
    ELSE LET f == ParseFloat(value)
         IN  IF f.kind = "err" THEN Returned(Absent) ELSE Returned(f)

\* DataLoader._safe_int: int(float(value)) raises ValueError for nan, which
\* is caught, and OverflowError for inf, which is not
safe_int(value) ==
    IF IsNone(value) \/ value = EmptyStr \/ Lower(value) = <<"n", "a", "n">>
    THEN Returned(Absent)
    ELSE LET f == ParseFloat(value)
         IN  CASE f.kind = "num" -> Returned(IntValue(f.int))
               [] f.kind = "inf" -> Raised
               [] OTHER -> Returned(Absent)

\* models_v2.FinancialData, the fields read from the financial row
FinancialData(total_expenditure, total_pupils, total_teaching_support_costs, agency_supply_costs) ==
    [present |-> TRUE,
     total_expenditure |-> total_expenditure,
     total_pupils |-> total_pupils,
     total_teaching_support_costs |-> total_teaching_support_costs,
     agency_supply_costs |-> agency_supply_costs]

\* Optional[FinancialData] of a School that is None
NoFinancial ==
    [present |-> FALSE, total_expenditure |-> Absent, total_pupils |-> Absent,
     total_teaching_support_costs |-> Absent, agency_supply_costs |-> Absent]

\* spend >= n  for a float spend and an integer n; false for nan
FloatGE(spend, n) ==
    CASE spend.kind = "num" -> spend.cents >= 100 * n
      [] spend.kind = "inf" -> ~spend.neg
      [] OTHER -> FALSE

\* the threshold function applied to the agency-only figure
get_priority_level_by_agency(financial) ==
    LET spend == financial.agency_supply_costs
    IN  IF spend.kind = "none" THEN "UNKNOWN"
        ELSE IF FloatGE(spend, 500000) THEN "HIGH"
        ELSE IF FloatGE(spend, 200000) THEN "MEDIUM"
        ELSE "LOW"

\* FinancialData.get_priority_level
get_priority_level(financial) ==
    LET spend == financial.total_teaching_support_costs
    IN  IF spend.kind = "none" THEN "UNKNOWN"
        ELSE IF FloatGE(spend, 500000) THEN "HIGH"
        ELSE IF FloatGE(spend, 200000) THEN "MEDIUM"
        ELSE "LOW"

\* School.get_sales_priority
get_sales_priority(school) ==
    IF ~school.financial.present THEN "UNKNOWN"
    ELSE get_priority_level(school.financial)

\* models_v2.School, the fields the pipeline reads or writes; headteacher
\* is the Contact's full_name, None when there is no Contact
School(urn, school_name, pupil_count, headteacher, financial) ==
    [urn |-> urn,
     school_name |-> school_name,
     pupil_count |-> pupil_count,
     headteacher |-> headteacher,
     financial |-> financial,
     ofsted |-> NoOfsted,
     conversation_starters |-> <<>>]

\* DataLoader._get_value over the candidate column names, in order
RECURSIVE get_value(_, _)
get_value(row, keys) ==
    IF keys = <<>> THEN None
    ELSE LET value == Get(row, Head(keys))
         IN  IF ~IsNone(value) /\ value # EmptyStr /\ Lower(value) # <<"n", "a", "n">>
             THEN Strip(value)
             ELSE get_value(row, Tail(keys))

\* text or '' inside an f-string
OrEmpty(v) == IF Truthy(v) THEN v ELSE EmptyStr

\* the headteacher Contact's full_name built at lines 264-279
headteacher_of(row) ==
    LET head_title == get_value(row, <<"head_title">>)
        head_first == get_value(row, <<"head_first_name">>)
        head_last == get_value(row, <<"head_last_name">>)
        head_full == get_value(row, <<"headteacher">>)
    IN  IF Truthy(head_full) \/ (Truthy(head_first) /\ Truthy(head_last))
        THEN Or(head_full,
                Strip(OrEmpty(head_title) \o <<" ">> \o OrEmpty(head_first)
                          \o <<" ">> \o OrEmpty(head_last)))
        ELSE None

\* the FinancialData read from the merged row instead of the financial row
financial_of_merged_row(row, fin) ==
    FinancialData(
        safe_float(Or(Get(row, "TotalExpenditure"), Get(row, "total_expenditure"))).value,
        safe_float(Or(Get(row, "TotalPupils"), Get(row, "pupil_count"))).value,
        safe_float(Or(Get(row, "TotalTeachingSupportStaffCosts"),
                      Get(row, "total_teaching_support_costs"))).value,
        safe_float(Or(Get(row, "AgencySupplyTeachingStaffCosts"),
                      Get(row, "agency_supply_costs"))).value)

\* the FinancialData built at lines 284-311 (four of its eight figures: the
\* others are read the same way)
financial_of(row, fin) ==
    FinancialData(
        safe_float(Or(Get(fin, "TotalExpenditure"), Get(fin, "total_expenditure"))).value,
        safe_float(Or(Get(fin, "TotalPupils"), Get(row, "pupil_count"))).value,
        safe_float(Or(Get(fin, "TotalTeachingSupportStaffCosts"),
                      Get(fin, "total_teaching_support_costs"))).value,
        safe_float(Or(Get(fin, "AgencySupplyTeachingStaffCosts"),
                      Get(fin, "agency_supply_costs"))).value)

\* DataLoader._merged_row_to_school; fin is row.get('_financial', row).  The
\* result is [raised, value]: _safe_int is the one call that can raise.
merged_row_to_school(row, fin, urn) ==
    LET school_name ==
            Or(get_value(row, <<"school_name", "SchoolName", "school_name_gias">>),
               <<"S", "c", "h", "o", "o", "l", " ">> \o urn)
        pupil_count == safe_int(Or(Get(row, "pupil_count"), Get(row, "TotalPupils")))
    IN  IF pupil_count.raised THEN Raised
        ELSE Returned(School(urn, school_name, pupil_count.value, headteacher_of(row),
                             financial_of(row, fin)))

(***************************************************************************)
(* DataLoader._load_gias_csv and _load_financial_csv: the rows of a file   *)
(* indexed by cleaned URN, a later row replacing an earlier one.  The      *)
(* result is [raised, data]; an exception of _clean_urn leaves the loop.   *)
(***************************************************************************)
RECURSIVE load_gias_csv(_, _)
load_gias_csv(rows, data) ==
    IF rows = <<>> THEN [raised |-> FALSE, data |-> data]
    ELSE LET row == Head(rows)
             urn == clean_urn(Or(Get(row, "urn"), Get(row, "URN")))
         IN  IF urn.raised THEN [raised |-> TRUE, data |-> data]
             ELSE IF Truthy(urn.value)
                  THEN load_gias_csv(Tail(rows),
                           [u \in DOMAIN data \cup {urn.value} |->
                               IF u = urn.value THEN row ELSE data[u]])
                  ELSE load_gias_csv(Tail(rows), data)

RECURSIVE load_financial_csv(_, _)
load_financial_csv(rows, data) ==
    IF rows = <<>> THEN [raised |-> FALSE, data |-> data]
    ELSE LET row == Head(rows)
             status == Get(row, "status")
             urn == clean_urn(Or(Get(row, "URN"), Get(row, "urn")))
         IN  IF Truthy(status) /\ status # <<"s", "u", "c", "c", "e", "s", "s">>
             THEN load_financial_csv(Tail(rows), data)          \* skip failed rows
             ELSE IF urn.raised THEN [raised |-> TRUE, data |-> data]
             ELSE IF Truthy(urn.value)
                  THEN load_financial_csv(Tail(rows),
                           [u \in DOMAIN data \cup {urn.value} |->
                               IF u = urn.value THEN row ELSE data[u]])
                  ELSE load_financial_csv(Tail(rows), data)

\* {**fin, **gias}: gias overwrites fin where both have the column
MergeRows(fin, gias) ==
    [k \in DOMAIN fin \cup DOMAIN gias |-> IF k \in DOMAIN gias THEN gias[k] ELSE fin[k]]

\* the orders in which  for urn in all_urns  can walk the set
Orders(S) == {o \in [1..Cardinality(S) -> S] : \A u \in S : \E i \in DOMAIN o : o[i] = u}

(***************************************************************************)
(* DataLoader._load_and_merge_csvs with the set walked in the given order  *)
(***************************************************************************)
NotRaised(made) == ~made.raised

\* the positions of made before the first conversion that raised
BeforeFirstRaise(made) == {i \in DOMAIN made : \A j \in 1..i : ~made[j].raised}

\* the merge leaving its loop at the first conversion that raises
load_and_merge_csvs_break(gias_data, financial_data, order) ==
    LET made == [i \in DOMAIN order |->
            LET urn == order[i]
                gias == IF urn \in DOMAIN gias_data THEN gias_data[urn] ELSE EmptyRow
                fin == IF urn \in DOMAIN financial_data THEN financial_data[urn]
                       ELSE EmptyRow
                merged == MergeRows(fin, gias)
            IN  merged_row_to_school(merged, IF fin # EmptyRow THEN fin ELSE merged, urn)]
    IN  [i \in BeforeFirstRaise(made) |-> made[i].value]

\* a conversion that raises is logged and the identifier skipped (lines 124-131)
load_and_merge_csvs(gias_data, financial_data, order) ==
    LET made == [i \in DOMAIN order |->
            LET urn == order[i]
                gias == IF urn \in DOMAIN gias_data THEN gias_data[urn] ELSE EmptyRow
                fin == IF urn \in DOMAIN financial_data THEN financial_data[urn]
                       ELSE EmptyRow
                merged == MergeRows(fin, gias)
            IN  merged_row_to_school(merged, IF fin # EmptyRow THEN fin ELSE merged, urn)]
        kept == SelectSeq(made, NotRaised)
    IN  [i \in DOMAIN kept |-> kept[i].value]

\* {key(s): s for s in schools}: the last School with a key wins; the value
\* is the School's position in the list (the same object, not a copy)
LastWith(keys, k) == CHOOSE i \in DOMAIN keys : keys[i] = k /\ \A j \in DOMAIN keys : keys[j] = k => j <= i

\* {s.school_name: s for s in schools}
IndexByName(schools) ==
    LET keys == [i \in DOMAIN schools |-> schools[i].school_name]
    IN  [k \in {keys[i] : i \in DOMAIN keys} |-> LastWith(keys, k)]

\* the identifier index keyed like the name index
IndexByUrnKeyedByName(schools) == IndexByName(schools)

\* {s.urn: s for s in schools}
IndexByUrn(schools) ==
    LET keys == [i \in DOMAIN schools |-> schools[i].urn]
    IN  [k \in {keys[i] : i \in DOMAIN keys} |-> LastWith(keys, k)]

\* _schools_cache is None
NoSchools == <<[urn |-> None]>>

\* config_v2.DATA_SOURCE, the selector of DataLoader() without an argument
DATA_SOURCE == "csv"

\* no caller is inside the DataLoader
NoThreads == <<>>

(***************************************************************************)
(* DataLoader.load as a relation between the loader's fields before and    *)
(* after.  loaded is [raised, cache, by_name, by_urn].                     *)
(***************************************************************************)
LoadOutcomes(sc, bn, bu, fa, fb, src) ==
    IF sc # NoSchools
    THEN {[raised |-> FALSE, cache |-> sc, by_name |-> bn, by_urn |-> bu]}
    ELSE IF src \notin {"csv", "databricks"}           \* raise ValueError
    THEN {[raised |-> TRUE, cache |-> sc, by_name |-> bn, by_urn |-> bu]}
    ELSE LET g == load_gias_csv(fa, <<>>)
             f == load_financial_csv(fb, <<>>)
         IN  IF g.raised \/ f.raised
             THEN {[raised |-> TRUE, cache |-> sc, by_name |-> bn, by_urn |-> bu]}
             ELSE {[raised |-> FALSE,
                    cache |-> schools,
                    by_name |-> IndexByName(schools),
                    by_urn |-> IndexByUrn(schools)]
                   : schools \in {load_and_merge_csvs(g.data, f.data, o) :
                                     o \in Orders(DOMAIN g.data \cup DOMAIN f.data)}}

(***************************************************************************)
(* Talking points (models_v2.ConversationStarter)                          *)
(***************************************************************************)
ConversationStarter(topic, detail, source) ==
    [cls |-> "ConversationStarter", topic |-> topic, detail |-> detail, source |-> source]

\* s.model_dump(): the dict that json.dump writes to the cache file
model_dump(s) == [topic |-> s.topic, detail |-> s.detail, source |-> s.source]

\* ConversationStarter(**s) on a dict read back from the cache file
FromDict(d) == ConversationStarter(d.topic, d.detail, d.source)

\* [s.model_dump() for s in starters]
DumpAll(starters) == [i \in DOMAIN starters |-> model_dump(starters[i])]

\* [ConversationStarter(**s) for s in cached_starters] raises: topic and
\* detail are required fields, so a dict without one fails validation
FromDictsRaises(cached_starters) ==
    \E i \in DOMAIN cached_starters : ~({"topic", "detail"} \subseteq DOMAIN cached_starters[i])

\* [ConversationStarter(**s) for s in cached_starters]
FromDicts(cached_starters) == [i \in DOMAIN cached_starters |-> FromDict(cached_starters[i])]

(***************************************************************************)
(* config_v2                                                               *)
(***************************************************************************)
ENABLE_CACHE == TRUE

CACHE_TTL_HOURS == 24

FEATURE_conversation_starters == TRUE

FEATURE_ofsted_analysis == TRUE

\* school_intelligence_service: the guarded import of chains.ofsted_chain
OFSTED_AVAILABLE == TRUE

(***************************************************************************)
(* SimpleCache.  The directory is a function from cache key to the content *)
(* of the JSON file; a key that is not in its domain is a missing file.    *)
(* A file that set wrote is a record with school_urn, cached_at and        *)
(* starters.  A file that json.load cannot parse, or that lacks the        *)
(* cached_at or starters key, is a record without those fields: reading it *)
(* raises inside the try of get.                                           *)
(***************************************************************************)
\* _get_cache_key: md5 of the namespaced identifier, taken as collision free
cache_key(school_urn) == <<"s", "t", "a", "r", "t", "e", "r", "s", "_">> \o school_urn

\* Optional[List[dict]]: the result of SimpleCache.get
NoList == [none |-> TRUE, list |-> <<>>]

SomeList(l) == [none |-> FALSE, list |-> l]

\* SimpleCache.get with an entry taken as expired at the time-to-live itself
cache_get_expired_at_ttl(dir, t, school_urn) ==
    LET key == cache_key(school_urn)
    IN  IF ~ENABLE_CACHE THEN NoList
        ELSE IF key \notin DOMAIN dir THEN NoList
        ELSE IF ~({"cached_at", "starters"} \subseteq DOMAIN dir[key]) THEN NoList
        ELSE IF t - dir[key].cached_at >= CACHE_TTL_HOURS THEN NoList
        ELSE SomeList(dir[key].starters)

\* SimpleCache.get at time t
cache_get(dir, t, school_urn) ==
    LET key == cache_key(school_urn)
    IN  IF ~ENABLE_CACHE THEN NoList
        ELSE IF key \notin DOMAIN dir THEN NoList
        ELSE IF ~({"cached_at", "starters"} \subseteq DOMAIN dir[key]) THEN NoList
        ELSE IF t - dir[key].cached_at > CACHE_TTL_HOURS THEN NoList
        ELSE SomeList(dir[key].starters)

\* SimpleCache.set that writes nothing for an empty list
cache_set_skip_empty(dir, t, school_urn, starters) ==
    LET key == cache_key(school_urn)
        data == [school_urn |-> school_urn,
                 cached_at |-> t,
                 starters |-> DumpAll(starters)]
    IN  IF ~ENABLE_CACHE \/ starters = <<>> THEN dir
        ELSE [k \in DOMAIN dir \cup {key} |-> IF k = key THEN data ELSE dir[k]]

\* the directory after SimpleCache.set at time t
cache_set(dir, t, school_urn, starters) ==
    LET key == cache_key(school_urn)
        data == [school_urn |-> school_urn,
                 cached_at |-> t,
                 starters |-> DumpAll(starters)]
    IN  IF ~ENABLE_CACHE THEN dir
        ELSE [k \in DOMAIN dir \cup {key} |-> IF k = key THEN data ELSE dir[k]]

\* the directory after SimpleCache.clear: without the file of school_urn when
\* school_urn is truthy, without any file otherwise
cache_clear(dir, school_urn) ==
    IF Truthy(school_urn)
    THEN [k \in DOMAIN dir \ {cache_key(school_urn)} |-> dir[k]]
    ELSE <<>>

\* what SimpleCache.set returns
cache_set_result == ENABLE_CACHE

\* Python truthiness of the Optional[List] that get returned
ListTruthy(r) == ~r.none /\ r.list # <<>>

(***************************************************************************)
(* get_school_intelligence_with_ofsted, lines 880-944: how many financial  *)
(* points to ask for, partition by source, interleave, deduplicate, limit  *)
(***************************************************************************)
Max(a, b) == IF a >= b THEN a ELSE b

Min(a, b) == IF a <= b THEN a ELSE b

\* int(num_starters * 0.6)
target_ofsted(num_starters) == (6 * num_starters) \div 10

\* the count that is the 40% target whatever was collected
financial_needed_target_only(num_starters, ofsted_count) ==
    Max(2, num_starters - target_ofsted(num_starters))

\* lines 886-898
financial_needed(num_starters, ofsted_count) ==
    LET target_financial == num_starters - target_ofsted(num_starters)
    IN  Max(2, IF ofsted_count < target_ofsted(num_starters)
               THEN num_starters - ofsted_count
               ELSE target_financial)

HTTP == <<"h", "t", "t", "p">>

\* s.source and s.source.startswith("http")
IsOfstedSourced(s) == Truthy(s.source) /\ StartsWith(s.source, HTTP)

\* not s.source or not s.source.startswith("http")
IsFinancialSourced(s) == ~Truthy(s.source) \/ ~StartsWith(s.source, HTTP)

RECURSIVE Balance(_, _, _, _, _, _, _)
Balance(i, num_starters, ofsted_starters, financial_starters, o_idx, f_idx, balanced) ==
    IF i >= num_starters THEN balanced
    ELSE IF (i % 3 < 2) /\ o_idx < Len(ofsted_starters)
         THEN Balance(i + 1, num_starters, ofsted_starters, financial_starters,
                      o_idx + 1, f_idx, Append(balanced, ofsted_starters[o_idx + 1]))
    ELSE IF f_idx < Len(financial_starters)
         THEN Balance(i + 1, num_starters, ofsted_starters, financial_starters,
                      o_idx, f_idx + 1, Append(balanced, financial_starters[f_idx + 1]))
    ELSE IF o_idx < Len(ofsted_starters)
         THEN Balance(i + 1, num_starters, ofsted_starters, financial_starters,
                      o_idx + 1, f_idx, Append(balanced, ofsted_starters[o_idx + 1]))
    ELSE Balance(i + 1, num_starters, ofsted_starters, financial_starters,
                 o_idx, f_idx, balanced)

\* the interleave without the fall-back to the other pool: a position whose
\* preferred pool is exhausted stays empty
RECURSIVE BalanceStrict(_, _, _, _, _, _, _)
BalanceStrict(i, num_starters, ofsted_starters, financial_starters, o_idx, f_idx, balanced) ==
    IF i >= num_starters THEN balanced
    ELSE IF (i % 3 < 2) /\ o_idx < Len(ofsted_starters)
         THEN BalanceStrict(i + 1, num_starters, ofsted_starters, financial_starters,
                            o_idx + 1, f_idx, Append(balanced, ofsted_starters[o_idx + 1]))
    ELSE IF (i % 3 = 2) /\ f_idx < Len(financial_starters)
         THEN BalanceStrict(i + 1, num_starters, ofsted_starters, financial_starters,
                            o_idx, f_idx + 1, Append(balanced, financial_starters[f_idx + 1]))
    ELSE BalanceStrict(i + 1, num_starters, ofsted_starters, financial_starters,
                       o_idx, f_idx, balanced)

balanced_starters_strict(all_starters, num_starters) ==
    BalanceStrict(0, num_starters,
                  SelectSeq(all_starters, IsOfstedSourced),
                  SelectSeq(all_starters, IsFinancialSourced),
                  0, 0, <<>>)

\* lines 912-932
balanced_starters(all_starters, num_starters) ==
    Balance(0, num_starters,
            SelectSeq(all_starters, IsOfstedSourced),
            SelectSeq(all_starters, IsFinancialSourced),
            0, 0, <<>>)

\* lines 934-941
RECURSIVE Dedupe(_, _, _)
Dedupe(starters, seen_topics, unique_starters) ==
    IF starters = <<>> THEN unique_starters
    ELSE IF Head(starters).topic \notin seen_topics
         THEN Dedupe(Tail(starters), seen_topics \cup {Head(starters).topic},
                     Append(unique_starters, Head(starters)))
    ELSE Dedupe(Tail(starters), seen_topics, unique_starters)

\* deduplication that remembers whole points instead of topics
unique_starters_by_point(balanced) ==
    LET keep == {i \in DOMAIN balanced : \A j \in 1..(i - 1) : balanced[j] # balanced[i]}
        nth(k) == CHOOSE i \in keep : Cardinality({j \in keep : j <= i}) = k
    IN  [k \in 1..Cardinality(keep) |-> balanced[nth(k)]]

unique_starters(balanced) == Dedupe(balanced, {}, <<>>)

\* unique_starters[:num_starters]
Limit(starters, num_starters) == SubSeq(starters, 1, Min(num_starters, Len(starters)))

(***************************************************************************)
(* The two generators are outside the repository: a call ends in one of    *)
(* the outcomes below.                                                     *)
(*   OfstedChain.analyze:        raises | {error: ...} | a result dict     *)
(*   ConversationChain.generate: raises | a ConversationStarterResponse    *)
(***************************************************************************)
Outcome(kind, improvements, starters) ==
    [kind |-> kind, improvements |-> improvements, conversation_starters |-> starters]

NoOutcome == Outcome("none", <<>>, <<>>)

\* the OfstedData built at lines 858-866 from a result without error
OfstedData(ofsted_result) ==
    [present |-> TRUE,
     rating |-> <<"G", "o", "o", "d">>,
     areas_for_improvement |->
        SubSeq(ofsted_result.improvements, 1, Min(5, Len(ofsted_result.improvements)))]

(***************************************************************************)
(* What the last operation was given and what it returned                  *)
(***************************************************************************)
Idle ==
    [op |-> "init", school_name |-> <<>>, force_refresh |-> FALSE, num_starters |-> 0,
     include_ofsted |-> FALSE, raised |-> FALSE, returned_none |-> FALSE, hit |-> FALSE,
     ofsted_calls |-> 0, financial_calls |-> 0, financial_asked |-> 0,
     ofsted_result |-> NoOutcome, response |-> NoOutcome,
     balanced |-> <<>>, urn |-> <<>>, starters |-> <<>>, got |-> NoList, count |-> 0,
     at |-> 0, had_entry |-> FALSE,
     arg |-> <<>>, result |-> <<>>, again |-> <<>>]

Request(op, school_name, force_refresh, num_starters, include_ofsted) ==
    [Idle EXCEPT !.op = op, !.school_name = school_name, !.force_refresh = force_refresh,
                 !.num_starters = num_starters, !.include_ofsted = include_ofsted,
                 !.at = now]

(***************************************************************************)
(* Steps 1 and 2 of get_school_intelligence_with_ofsted (lines 843-908)    *)
(***************************************************************************)
\* whether ofsted_chain.analyze is called
OfstedCalled(include_ofsted) ==
    include_ofsted /\ OFSTED_AVAILABLE /\ FEATURE_ofsted_analysis

\* all_starters after step 1
OfstedStarters(include_ofsted, ofsted_result) ==
    IF OfstedCalled(include_ofsted) /\ ofsted_result.kind = "ok"
    THEN ofsted_result.conversation_starters
    ELSE <<>>

\* step 1 detaching the record when the analysis did not succeed
OfstedAfterOrNone(school, include_ofsted, ofsted_result) ==
    IF OfstedCalled(include_ofsted) /\ ofsted_result.kind = "ok"
    THEN OfstedData(ofsted_result)
    ELSE NoOfsted

\* school.ofsted after step 1
OfstedAfter(school, include_ofsted, ofsted_result) ==
    IF OfstedCalled(include_ofsted) /\ ofsted_result.kind = "ok"
    THEN OfstedData(ofsted_result)
    ELSE school.ofsted

\* step 2 discarding what step 1 collected when the financial call fails
AllStartersOrNothing(include_ofsted, ofsted_result, response) ==
    IF FEATURE_conversation_starters /\ response.kind = "ok"
    THEN OfstedStarters(include_ofsted, ofsted_result) \o response.conversation_starters
    ELSE <<>>

\* all_starters after step 2
AllStarters(include_ofsted, ofsted_result, response) ==
    OfstedStarters(include_ofsted, ofsted_result)
        \o (IF FEATURE_conversation_starters /\ response.kind = "ok"
            THEN response.conversation_starters
            ELSE <<>>)

\* the pipeline walking every collected point and never truncating
FinalStartersUnbounded(all_starters, num_starters) ==
    unique_starters(balanced_starters(all_starters, Len(all_starters)))

\* the pipeline without the partition: the points in the order collected
FinalStartersAsCollected(all_starters, num_starters) ==
    Limit(unique_starters(all_starters), num_starters)

\* lines 910-944: the list stored on the School
FinalStarters(all_starters, num_starters) ==
    Limit(unique_starters(balanced_starters(all_starters, num_starters)), num_starters)

(***************************************************************************)
(* Operations of SchoolIntelligenceService.  Each begins with              *)
(* data_loader.get_school_by_name, which calls DataLoader.load.            *)
(***************************************************************************)
frame_files == <<feedA, feedB, loader_source, threads>>

\* a lookup that answers with the first School when the name is not indexed
get_school_by_name_or_first(by_name, name) ==
    IF name \in DOMAIN by_name THEN by_name[name]
    ELSE IF DOMAIN by_name = {} THEN 0 ELSE 1

\* DataLoader.get_school_by_name after load(): self._schools_by_name.get(name),
\* as a position in the School list, 0 for None
get_school_by_name(by_name, name) == IF name \in DOMAIN by_name THEN by_name[name] ELSE 0

SetLoader(ld) ==
    /\ schools_cache' = ld.cache
    /\ schools_by_name' = ld.by_name
    /\ schools_by_urn' = ld.by_urn

\* the School list with the School at position i updated
\* the result put on a copy of the School, the list's School left as loaded
WithStartersOnCopy(schools, i, starters, ofsted) == schools

WithStarters(schools, i, starters, ofsted) ==
    [schools EXCEPT ![i].conversation_starters = starters, ![i].ofsted = ofsted]

\* get_school_intelligence_with_ofsted (lines 803-950); OfstedResults and
\* Responses are the outcomes the two generator calls can have
get_school_intelligence_with_ofsted(school_name, force_refresh, num_starters, include_ofsted, OfstedResults, Responses) ==
    \E ld \in LoadOutcomes(schools_cache, schools_by_name, schools_by_urn, feedA, feedB, loader_source) :
      LET req == Request("with_ofsted", school_name, force_refresh, num_starters,
                         include_ofsted)
      IN
      IF ld.raised
      THEN /\ last' = [req EXCEPT !.raised = TRUE]
           /\ UNCHANGED <<frame_files, schools_cache, schools_by_name, schools_by_urn,
                          cache, now>>
      ELSE IF get_school_by_name(ld.by_name, school_name) = 0
      THEN /\ SetLoader(ld)
           /\ last' = [req EXCEPT !.returned_none = TRUE]
           /\ UNCHANGED <<frame_files, cache, now>>
      ELSE
      LET i == get_school_by_name(ld.by_name, school_name)
          school == ld.cache[i]
          cached_starters == IF force_refresh THEN NoList
                             ELSE cache_get(cache, now, school.urn)
      IN
      IF ~force_refresh /\ ListTruthy(cached_starters)
      THEN IF FromDictsRaises(cached_starters.list)
           THEN /\ SetLoader(ld)
                /\ last' = [req EXCEPT !.raised = TRUE, !.urn = school.urn,
                                       !.had_entry = TRUE, !.got = cached_starters]
                /\ UNCHANGED <<frame_files, cache, now>>
           ELSE
           /\ schools_cache' = WithStarters(ld.cache, i,
                                   FromDicts(cached_starters.list), school.ofsted)
           /\ schools_by_name' = ld.by_name
           /\ schools_by_urn' = ld.by_urn
           /\ last' = [req EXCEPT !.hit = TRUE, !.urn = school.urn, !.had_entry = TRUE,
                                  !.got = cached_starters,
                                  !.starters = FromDicts(cached_starters.list)]
           /\ UNCHANGED <<frame_files, cache, now>>
      ELSE
      \E ofsted_result \in (IF OfstedCalled(include_ofsted) THEN OfstedResults
                            ELSE {NoOutcome}) :
      \E response \in (IF FEATURE_conversation_starters THEN Responses ELSE {NoOutcome}) :
        LET ofsted_starters == OfstedStarters(include_ofsted, ofsted_result)
            all_starters == AllStarters(include_ofsted, ofsted_result, response)
            final == FinalStarters(all_starters, num_starters)
        IN  /\ schools_cache' = WithStarters(ld.cache, i, final,
                                    OfstedAfter(school, include_ofsted, ofsted_result))
            /\ schools_by_name' = ld.by_name
            /\ schools_by_urn' = ld.by_urn
            /\ cache' = cache_set(cache, now, school.urn, final)
            /\ last' = [req EXCEPT
                  !.urn = school.urn,
                  !.had_entry = cache_key(school.urn) \in DOMAIN cache,
                  !.got = cached_starters,
                  !.ofsted_calls = IF OfstedCalled(include_ofsted) THEN 1 ELSE 0,
                  !.financial_calls = IF FEATURE_conversation_starters THEN 1 ELSE 0,
                  !.financial_asked = financial_needed(num_starters, Len(ofsted_starters)),
                  !.ofsted_result = ofsted_result,
                  !.response = response,
                  !.balanced = balanced_starters(all_starters, num_starters),
                  !.starters = final]
            /\ UNCHANGED <<frame_files, now>>

\* get_school_intelligence (lines 704-762)
get_school_intelligence(school_name, force_refresh, num_starters, Responses) ==
    \E ld \in LoadOutcomes(schools_cache, schools_by_name, schools_by_urn, feedA, feedB, loader_source) :
      LET req == Request("plain", school_name, force_refresh, num_starters, FALSE)
      IN
      IF ld.raised
      THEN /\ last' = [req EXCEPT !.raised = TRUE]
           /\ UNCHANGED <<frame_files, schools_cache, schools_by_name, schools_by_urn,
                          cache, now>>
      ELSE IF get_school_by_name(ld.by_name, school_name) = 0
      THEN /\ SetLoader(ld)
           /\ last' = [req EXCEPT !.returned_none = TRUE]
           /\ UNCHANGED <<frame_files, cache, now>>
      ELSE
      LET i == get_school_by_name(ld.by_name, school_name)
          school == ld.cache[i]
          cached_starters == IF force_refresh THEN NoList
                             ELSE cache_get(cache, now, school.urn)
      IN
      IF ~FEATURE_conversation_starters
      THEN /\ SetLoader(ld)
           /\ last' = [req EXCEPT !.urn = school.urn,
                                  !.starters = school.conversation_starters]
           /\ UNCHANGED <<frame_files, cache, now>>
      ELSE IF ~force_refresh /\ ListTruthy(cached_starters)
      THEN IF FromDictsRaises(cached_starters.list)
           THEN /\ SetLoader(ld)
                /\ last' = [req EXCEPT !.raised = TRUE, !.urn = school.urn,
                                       !.had_entry = TRUE, !.got = cached_starters]
                /\ UNCHANGED <<frame_files, cache, now>>
           ELSE
           /\ schools_cache' = WithStarters(ld.cache, i,
                                   FromDicts(cached_starters.list), school.ofsted)
           /\ schools_by_name' = ld.by_name
           /\ schools_by_urn' = ld.by_urn
           /\ last' = [req EXCEPT !.hit = TRUE, !.urn = school.urn, !.had_entry = TRUE,
                                  !.got = cached_starters,
                                  !.starters = FromDicts(cached_starters.list)]
           /\ UNCHANGED <<frame_files, cache, now>>
      ELSE
      \E response \in Responses :
        IF response.kind = "ok"
        THEN /\ schools_cache' = WithStarters(ld.cache, i,
                                     response.conversation_starters, school.ofsted)
             /\ schools_by_name' = ld.by_name
             /\ schools_by_urn' = ld.by_urn
             /\ cache' = cache_set(cache, now, school.urn, response.conversation_starters)
             /\ last' = [req EXCEPT !.urn = school.urn, !.financial_calls = 1,
                                    !.had_entry = cache_key(school.urn) \in DOMAIN cache,
                                    !.got = cached_starters,
                                    !.financial_asked = num_starters,
                                    !.response = response,
                                    !.starters = response.conversation_starters]
             /\ UNCHANGED <<frame_files, now>>
        ELSE \* except Exception: return school
             /\ SetLoader(ld)
             /\ last' = [req EXCEPT !.urn = school.urn, !.financial_calls = 1,
                                    !.had_entry = cache_key(school.urn) \in DOMAIN cache,
                                    !.got = cached_starters,
                                    !.financial_asked = num_starters,
                                    !.response = response,
                                    !.starters = school.conversation_starters]
             /\ UNCHANGED <<frame_files, cache, now>>

\* time passes between two operations
Tick(hours) ==
    /\ now' = now + hours
    /\ UNCHANGED <<frame_files, schools_cache, schools_by_name, schools_by_urn, cache, last>>

\* SimpleCache.get called on its own
CacheGet(school_urn) ==
    /\ last' = [Idle EXCEPT !.op = "get", !.urn = school_urn, !.at = now,
                            !.got = cache_get(cache, now, school_urn)]
    /\ UNCHANGED <<frame_files, schools_cache, schools_by_name, schools_by_urn, cache, now>>

\* SimpleCache.set called on its own
CacheSet(school_urn, starters) ==
    /\ cache' = cache_set(cache, now, school_urn, starters)
    /\ last' = [Idle EXCEPT !.op = "set", !.urn = school_urn, !.at = now,
                            !.starters = starters]
    /\ UNCHANGED <<frame_files, schools_cache, schools_by_name, schools_by_urn, now>>

\* SimpleCache.clear called on its own; count is the number of files unlinked
CacheClear(school_urn) ==
    /\ cache' = cache_clear(cache, school_urn)
    /\ last' = [Idle EXCEPT !.op = "clear", !.arg = school_urn, !.at = now,
                            !.count = Cardinality(DOMAIN cache)
                                      - Cardinality(DOMAIN cache_clear(cache, school_urn))]
    /\ UNCHANGED <<frame_files, schools_cache, schools_by_name, schools_by_urn, now>>

\* DataLoader.get_all_schools, which is load() (lines 50-69, 362-364)
Load ==
    \E ld \in LoadOutcomes(schools_cache, schools_by_name, schools_by_urn, feedA, feedB, loader_source) :
        /\ IF ld.raised
           THEN UNCHANGED <<schools_cache, schools_by_name, schools_by_urn>>
           ELSE SetLoader(ld)
        /\ last' = [Idle EXCEPT !.op = "load", !.raised = ld.raised, !.at = now,
                                !.count = IF ld.raised THEN 0 ELSE Len(ld.cache)]
        /\ UNCHANGED <<frame_files, cache, now>>

\* DataLoader.refresh (lines 505-510), which SchoolIntelligenceService.refresh_data
\* returns (lines 986-988): the three fields are emptied and load() runs
Refresh ==
    \E ld \in LoadOutcomes(NoSchools, <<>>, <<>>, feedA, feedB, loader_source) :
        /\ IF ld.raised
           THEN /\ schools_cache' = NoSchools
                /\ schools_by_name' = <<>>
                /\ schools_by_urn' = <<>>
           ELSE SetLoader(ld)
        /\ last' = [Idle EXCEPT !.op = "refresh", !.raised = ld.raised, !.at = now,
                                !.count = IF ld.raised THEN 0 ELSE Len(ld.cache)]
        /\ UNCHANGED <<frame_files, cache, now>>

(***************************************************************************)
(* Bounds and the values the operations are tried with                     *)
(***************************************************************************)
MaxStarters == 2        \* num_starters ranges over 1..MaxStarters

MaxTime == 25           \* the clock stops here

MaxCount == 5           \* the requested counts of the pipeline on its own

Oak == <<"O", "a", "k">>

Elm == <<"E", "l", "m">>

Ash == <<"A", "s", "h">>

Urn100 == <<"1", "0", "0">>

Urn200 == <<"2", "0", "0">>

SUCCESS == <<"s", "u", "c", "c", "e", "s", "s">>

\* the names requests are made with: Oak is in both feeds, Elm is a second
\* school that nobody asks for, no feed has a school named Ash
SchoolNames == {Oak, Ash}

URL == <<"h", "t", "t", "p", "s", ":", "/", "/", "o">>

FIN == <<"F", "i", "n">>

O1 == ConversationStarter("Reading", "o1", URL)

O2 == ConversationStarter("Maths", "o2", URL)

F1 == ConversationStarter("Staffing", "f1", FIN)

F2 == ConversationStarter("Reading", "f2", None)

F3 == ConversationStarter("Staffing", "f3", FIN)

F4 == ConversationStarter("Agency", "f4", URL)

\* the outcomes the generator calls are tried with
OfstedResults ==
    {Outcome("raise", <<>>, <<>>), Outcome("error", <<>>, <<>>),
     Outcome("ok", <<"i1", "i2">>, <<O1>>), Outcome("ok", <<"i1", "i2">>, <<O1, O2>>)}

Responses ==
    {Outcome("raise", <<>>, <<>>), Outcome("ok", <<>>, <<>>),
     Outcome("ok", <<>>, <<F1>>), Outcome("ok", <<>>, <<F1, F2>>),
     Outcome("ok", <<>>, <<F2, F4>>), Outcome("ok", <<>>, <<F1, F3, F2>>)}

(***************************************************************************)
(* The service.  The cache directory outlives the process: it starts with  *)
(* an entry for Elm written by an earlier run.                             *)
(***************************************************************************)
Init ==
    /\ feedA = << [urn |-> Urn100, school_name |-> Oak],
                  [urn |-> <<"2", "0", "0", ".", "0">>, school_name |-> Elm] >>
    /\ feedB = << [URN |-> Urn100, SchoolName |-> <<"O", "A", "K">>, status |-> SUCCESS] >>
    /\ schools_cache = NoSchools
    /\ schools_by_name = <<>>
    /\ schools_by_urn = <<>>
    /\ loader_source = DATA_SOURCE
    /\ threads = NoThreads
    /\ cache = cache_set(<<>>, 0, Urn200, <<F3>>)
    /\ now = 0
    /\ last = Idle

WithOfsted ==
    \E school_name \in SchoolNames, force_refresh \in BOOLEAN,
       num_starters \in 1..MaxStarters, include_ofsted \in BOOLEAN :
        get_school_intelligence_with_ofsted(school_name, force_refresh, num_starters,
            include_ofsted, OfstedResults, Responses)

Plain ==
    \E school_name \in SchoolNames, force_refresh \in BOOLEAN,
       num_starters \in 1..MaxStarters :
        get_school_intelligence(school_name, force_refresh, num_starters, Responses)

\* the hours by which the clock is advanced: to the last hour within the
\* time-to-live and to the first hour past it
Clock == \E hours \in {CACHE_TTL_HOURS, CACHE_TTL_HOURS + 1} : now + hours <= MaxTime /\ Tick(hours)

Next == WithOfsted \/ Plain \/ Clock

\* augmented requests for Oak, plain requests for Elm and refresh_data, at
\* one hour; one inspection result has six improvement areas
SpecRecord ==
    /\ Init
    /\ [][
        \/ \E force_refresh \in BOOLEAN, num_starters \in 1..MaxStarters, include_ofsted \in BOOLEAN :
              get_school_intelligence_with_ofsted(Oak, force_refresh, num_starters, include_ofsted,
                  {r \in OfstedResults : Len(r.conversation_starters) <= 1}
                      \cup {Outcome("ok", <<"i1", "i2", "i3", "i4", "i5", "i6">>, <<O2>>)},
                  {r \in Responses : Len(r.conversation_starters) <= 1})
        \/ \E force_refresh \in BOOLEAN :
              get_school_intelligence(Elm, force_refresh, MaxStarters,
                  {r \in Responses : Len(r.conversation_starters) <= 1})
        \/ Refresh
       ]_vars

Spec == Init /\ [][Next]_vars

(***************************************************************************)
(* The cache on its own: SimpleCache.get and SimpleCache.set called with   *)
(* any identifier and any list, and the clock                              *)
(***************************************************************************)
CacheUrns == {Urn100, Urn200}

InitCache ==
    /\ feedA = <<>>
    /\ feedB = <<>>
    /\ schools_cache = NoSchools
    /\ schools_by_name = <<>>
    /\ schools_by_urn = <<>>
    /\ loader_source = DATA_SOURCE
    /\ threads = NoThreads
    /\ cache = <<>>
    /\ now = 0
    /\ last = Idle

Getting == \E school_urn \in CacheUrns : CacheGet(school_urn)

Setting ==
    \E school_urn \in CacheUrns, starters \in {<<>>, <<O1>>, <<F2>>, <<F1, F2>>} :
        CacheSet(school_urn, starters)

NextCache == Getting \/ Setting \/ Clock

SpecCache == InitCache /\ [][NextCache]_vars

(***************************************************************************)
(* SimpleCache.set as its two file operations, for callers that overlap.   *)
(* open(path, 'w') empties the file; the text is written when the file is  *)
(* closed, at the writer's own offset, which is 0.  A text is counted in    *)
(* units: the head up to the list, one unit per point, the tail; the       *)
(* points written here (F1, F3) have texts of the same length.  A file     *)
(* json.load accepts is kept as the data it holds, any other as its text.   *)
(***************************************************************************)
\* json.dump(data, f, indent=2)
json_dump(data) ==
    <<[chunk |-> "head", school_urn |-> data.school_urn, cached_at |-> data.cached_at]>>
        \o [i \in DOMAIN data.starters |-> [chunk |-> "point", point |-> data.starters[i]]]
        \o <<[chunk |-> "tail"]>>

\* json.load(f)
json_load(text) ==
    IF /\ Len(text) >= 2
       /\ text[1].chunk = "head"
       /\ text[Len(text)].chunk = "tail"
       /\ \A i \in 2..(Len(text) - 1) : text[i].chunk = "point"
    THEN Returned([school_urn |-> text[1].school_urn,
                   cached_at |-> text[1].cached_at,
                   starters |-> [i \in 1..(Len(text) - 2) |-> text[i + 1].point]])
    ELSE Raised

\* lines 611-621: the data is built and the file opened for writing
SetOpen(t, school_urn, starters) ==
    /\ ENABLE_CACHE
    /\ t \notin DOMAIN threads
    /\ threads' = [k \in DOMAIN threads \cup {t} |->
                      IF k = t
                      THEN [pc |-> "opened", op |-> "set", starters |-> starters,
                            arg |-> [school_urn |-> school_urn, cached_at |-> now,
                                     starters |-> DumpAll(starters)]]
                      ELSE threads[k]]
    /\ cache' = [k \in DOMAIN cache \cup {cache_key(school_urn)} |->
                    IF k = cache_key(school_urn) THEN [text |-> <<>>] ELSE cache[k]]
    /\ last' = [Idle EXCEPT !.op = "open", !.urn = school_urn, !.at = now, !.starters = starters]
    /\ UNCHANGED <<feedA, feedB, loader_source, schools_cache, schools_by_name, schools_by_urn, now>>

\* lines 622-625: the text is written over the file's first units and the
\* file closed
SetWrite(t) ==
    /\ t \in DOMAIN threads
    /\ threads[t].pc = "opened"
    /\ \E key \in {cache_key(threads[t].arg.school_urn)} :
       \E old \in {IF "text" \in DOMAIN cache[key] THEN cache[key].text ELSE json_dump(cache[key])} :
       \E text \in {json_dump(threads[t].arg) \o SubSeq(old, Len(json_dump(threads[t].arg)) + 1, Len(old))} :
          cache' = [cache EXCEPT ![key] = IF json_load(text).raised THEN [text |-> text]
                                          ELSE json_load(text).value]
    /\ threads' = [k \in DOMAIN threads \ {t} |-> threads[k]]
    /\ last' = [Idle EXCEPT !.op = "set", !.urn = threads[t].arg.school_urn, !.at = now,
                            !.starters = threads[t].starters]
    /\ UNCHANGED <<feedA, feedB, loader_source, schools_cache, schools_by_name, schools_by_urn, now>>

SpecRace ==
    /\ InitCache
    /\ [][
        \/ \E t \in {"a", "b"}, starters \in {<<>>, <<F1>>, <<F3>>, <<F1, F3>>} :
              SetOpen(t, Urn100, starters)
        \/ \E t \in {"a", "b"} : SetWrite(t)
        \/ Getting
       ]_vars

\* the cache with clear: clear() is clear(None), and the identifier may be
\* the empty string
SpecClear ==
    /\ InitCache
    /\ [][
        \/ \E school_urn \in CacheUrns \cup {None, EmptyStr} : CacheClear(school_urn)
        \/ NextCache
       ]_vars

(***************************************************************************)
(* The loader on its own: the two files hold any rows of the sets below    *)
(***************************************************************************)
MaxRowsA == 2           \* rows in the GIAS file

MaxRowsB == 1           \* rows in the financial file

NAN == <<"n", "a", "n">>

\* identifier cells: absent, empty, nan in three spellings, blank, inf,
\* a word, and three spellings of 7
RawUrns ==
    {None, EmptyStr, NAN, <<"N", "a", "N">>, <<" ", "n", "a", "n", " ">>, <<" ", " ">>,
     <<"i", "n", "f">>, <<"a", "b", "c">>, <<"7">>, <<"7", ".", "0">>, <<" ", "7", " ">>}

SeqsUpTo(S, n) == UNION {[1..k -> S] : k \in 0..n}

InitLoader ==
    /\ feedA \in SeqsUpTo({[urn |-> u, school_name |-> n] : u \in RawUrns, n \in {Oak, Elm}},
                           MaxRowsA)
    /\ feedB \in SeqsUpTo({[URN |-> u, SchoolName |-> <<"O", "A", "K">>, status |-> st] :
                               u \in RawUrns, st \in {SUCCESS, <<"f", "a", "i", "l", "e", "d">>}},
                           MaxRowsB)
    /\ schools_cache = NoSchools
    /\ schools_by_name = <<>>
    /\ schools_by_urn = <<>>
    /\ loader_source \in {"csv", "databricks", "excel"}
    /\ threads = NoThreads
    /\ cache = <<>>
    /\ now = 0
    /\ last = Idle

SpecLoader == InitLoader /\ [][Load]_vars

(***************************************************************************)
(* The service over a cache directory whose file for Oak was not written   *)
(* by a completed set: cut short, without its time stamp, or with a point  *)
(* that lacks its topic.                                                   *)
(***************************************************************************)
BadFiles ==
    {[text |-> "{"],
     [school_urn |-> Urn100, starters |-> DumpAll(<<F1>>)],
     [school_urn |-> Urn100, cached_at |-> 0, starters |-> <<[detail |-> "f1", source |-> FIN]>>],
     [school_urn |-> Urn100, cached_at |-> 0,
      starters |-> <<model_dump(F1), [topic |-> "Reading", source |-> None]>>]}

InitBadCache ==
    /\ feedA = << [urn |-> Urn100, school_name |-> Oak] >>
    /\ feedB = << [URN |-> Urn100, SchoolName |-> <<"O", "A", "K">>, status |-> SUCCESS] >>
    /\ schools_cache = NoSchools
    /\ schools_by_name = <<>>
    /\ schools_by_urn = <<>>
    /\ loader_source = DATA_SOURCE
    /\ threads = NoThreads
    /\ \E file \in BadFiles : cache = [k \in {cache_key(Urn100)} |-> file]
    /\ now = 0
    /\ last = Idle

SpecBadCache ==
    /\ InitBadCache
    /\ [][
        \/ \E num_starters \in 1..MaxStarters, include_ofsted \in BOOLEAN :
              get_school_intelligence_with_ofsted(Oak, FALSE, num_starters, include_ofsted,
                  OfstedResults, Responses)
        \/ \E num_starters \in 1..MaxStarters :
              get_school_intelligence(Oak, FALSE, num_starters, Responses)
        \/ Getting
        \/ Clock
       ]_vars

(***************************************************************************)
(* The merge on its own.  A file has one header, so all rows of a feed     *)
(* have the same columns; the two feeds choose their name column           *)
(* independently, and the financial feed may have none.                    *)
(***************************************************************************)
Urn500 == <<"5", "0", "0">>

Jane == <<"J", "a", "n", "e">>

INF == <<"i", "n", "f">>

\* the candidate name columns of _merged_row_to_school
NameColumns == {"school_name", "SchoolName", "school_name_gias"}

\* a row of the GIAS file whose header names the school in column name_column
GiasRow(name_column, urn, headteacher, pupil_count) ==
    [c \in {"urn", name_column, "headteacher", "pupil_count", "total_teaching_support_costs"} |->
        CASE c = "urn" -> urn
          [] c = "headteacher" -> headteacher
          [] c = "pupil_count" -> pupil_count
          [] c = "total_teaching_support_costs" -> <<"1", "0", "0", "0", "0", "0">>
          [] OTHER -> Oak]

\* a row of the financial file; name_column "" is a header without a name
FinancialRow(name_column, urn, costs, pupils) ==
    [c \in {"URN", "status", "total_teaching_support_costs", "TotalPupils"}
            \cup (NameColumns \cap {name_column}) |->
        CASE c = "URN" -> urn
          [] c = "status" -> SUCCESS
          [] c = "total_teaching_support_costs" -> costs
          [] c = "TotalPupils" -> pupils
          [] OTHER -> <<"O", "A", "K">>]

\* GIAS rows: cells are the headteacher and pupil_count of a row
MergeRowsA(name_column) ==
    {GiasRow(name_column, urn, cells[1], cells[2]) :
        urn \in {Urn500, <<"7">>},
        cells \in {<<Jane, <<"2", "1", "0">>>>, <<Jane, INF>>, <<EmptyStr, EmptyStr>>}}

\* financial rows: cells are the total_teaching_support_costs and
\* TotalPupils of a row
MergeRowsB(name_column) ==
    {FinancialRow(name_column, urn, cells[1], cells[2]) :
        urn \in {Urn500, <<"8">>},
        cells \in {<<<<"5", "5", "0", "0", "0", "0">>, <<"3", "0", "0">>>>,
                   <<<<"5", "5", "0", "0", "0", "0">>, INF>>,
                   <<EmptyStr, <<"3", "0", "0">>>>}}

InitMerge ==
    /\ \E name_column \in NameColumns : feedA \in SeqsUpTo(MergeRowsA(name_column), MaxRowsA)
    /\ \E name_column \in {"", "SchoolName", "school_name"} :
            feedB \in SeqsUpTo(MergeRowsB(name_column), MaxRowsB)
    /\ schools_cache = NoSchools
    /\ schools_by_name = <<>>
    /\ schools_by_urn = <<>>
    /\ loader_source = DATA_SOURCE
    /\ threads = NoThreads
    /\ cache = <<>>
    /\ now = 0
    /\ last = Idle

SpecMerge == InitMerge /\ [][Load]_vars

(***************************************************************************)
(* Loads and refreshes by one caller.  The GIAS rows spell the identifier  *)
(* 100 in two ways and share names; the financial rows repeat the          *)
(* identifiers of the GIAS rows.                                           *)
(***************************************************************************)
InitReload ==
    /\ feedA \in SeqsUpTo({[urn |-> u, school_name |-> n] :
                               u \in {Urn100, <<"1", "0", "0", ".", "0">>, Urn200}, n \in {Oak, Elm}},
                           MaxRowsA)
    /\ feedB \in SeqsUpTo({[URN |-> u, SchoolName |-> <<"O", "A", "K">>, status |-> SUCCESS] :
                               u \in {Urn100, Urn200}},
                           MaxRowsB)
    /\ schools_cache = NoSchools
    /\ schools_by_name = <<>>
    /\ schools_by_urn = <<>>
    /\ loader_source = DATA_SOURCE
    /\ threads = NoThreads
    /\ cache = <<>>
    /\ now = 0
    /\ last = Idle

SpecReload == InitReload /\ [][Load \/ Refresh]_vars

(***************************************************************************)
(* The shared DataLoader under concurrent callers.  get_data_loader hands  *)
(* every caller the same object and no method takes a lock, so a step of   *)
(* one caller is a statement of load, refresh or a reader, and the steps   *)
(* of the callers interleave.  A caller is [pc, op, arg, schools]:         *)
(* schools is the local variable of load.  The refresher calls refresh,    *)
(* the reader the three readers.                                           *)
(***************************************************************************)
IdleThread == [pc |-> "idle", op |-> "none", arg |-> <<>>, schools |-> NoSchools]

\* a caller enters refresh (line 505) or a reader (lines 362, 371, 376)
Call(t) ==
    /\ threads[t].pc = "idle"
    /\ \E c \in IF t = "refresher" THEN {<<"refresh", <<>>>>}
               ELSE {<<"get_all_schools", <<>>>>, <<"get_school_by_name", Oak>>,
                     <<"get_school_by_name", Ash>>, <<"get_school_by_urn", Urn100>>} :
          threads' = [threads EXCEPT ![t] =
              [pc |-> IF c[1] = "refresh" THEN "clear_cache" ELSE "load_check",
               op |-> c[1], arg |-> c[2], schools |-> NoSchools]]
    /\ UNCHANGED <<feedA, feedB, loader_source, schools_cache, schools_by_name,
                   schools_by_urn, cache, now, last>>

\* refresh, line 507: self._schools_cache = None
ClearCache(t) ==
    /\ threads[t].pc = "clear_cache"
    /\ schools_cache' = NoSchools
    /\ threads' = [threads EXCEPT ![t].pc = "clear_by_name"]
    /\ UNCHANGED <<feedA, feedB, loader_source, schools_by_name, schools_by_urn, cache,
                   now, last>>

\* refresh, line 508: self._schools_by_name = {}
ClearByName(t) ==
    /\ threads[t].pc = "clear_by_name"
    /\ schools_by_name' = <<>>
    /\ threads' = [threads EXCEPT ![t].pc = "clear_by_urn"]
    /\ UNCHANGED <<feedA, feedB, loader_source, schools_cache, schools_by_urn, cache,
                   now, last>>

\* refresh, line 509: self._schools_by_urn = {}; line 510 enters load
ClearByUrn(t) ==
    /\ threads[t].pc = "clear_by_urn"
    /\ schools_by_urn' = <<>>
    /\ threads' = [threads EXCEPT ![t].pc = "load_check"]
    /\ UNCHANGED <<feedA, feedB, loader_source, schools_cache, schools_by_name, cache,
                   now, last>>

\* load, lines 52-54: return the list when there is one
LoadCheck(t) ==
    /\ threads[t].pc = "load_check"
    /\ threads' = [threads EXCEPT
          ![t].pc = IF schools_cache # NoSchools THEN "loaded" ELSE "load_read",
          ![t].schools = schools_cache]
    /\ UNCHANGED <<feedA, feedB, loader_source, schools_cache, schools_by_name,
                   schools_by_urn, cache, now, last>>

\* load, lines 56-61: schools = self._load_and_merge_csvs()
LoadRead(t) ==
    /\ threads[t].pc = "load_read"
    /\ \E ld \in LoadOutcomes(NoSchools, <<>>, <<>>, feedA, feedB, loader_source) :
          threads' = [threads EXCEPT
              ![t].pc = IF ld.raised THEN "idle" ELSE "set_cache",
              ![t].schools = ld.cache]
    /\ UNCHANGED <<feedA, feedB, loader_source, schools_cache, schools_by_name,
                   schools_by_urn, cache, now, last>>

\* load, line 63: self._schools_cache = schools
SetCache(t) ==
    /\ threads[t].pc = "set_cache"
    /\ schools_cache' = threads[t].schools
    /\ threads' = [threads EXCEPT ![t].pc = "set_by_name"]
    /\ UNCHANGED <<feedA, feedB, loader_source, schools_by_name, schools_by_urn, cache,
                   now, last>>

\* load, line 65: self._schools_by_name = {s.school_name: s for s in schools}
SetByName(t) ==
    /\ threads[t].pc = "set_by_name"
    /\ schools_by_name' = IndexByName(threads[t].schools)
    /\ threads' = [threads EXCEPT ![t].pc = "set_by_urn"]
    /\ UNCHANGED <<feedA, feedB, loader_source, schools_cache, schools_by_urn, cache,
                   now, last>>

\* load, line 66: self._schools_by_urn = {s.urn: s for s in schools}
SetByUrn(t) ==
    /\ threads[t].pc = "set_by_urn"
    /\ schools_by_urn' = IndexByUrn(threads[t].schools)
    /\ threads' = [threads EXCEPT ![t].pc = "loaded"]
    /\ UNCHANGED <<feedA, feedB, loader_source, schools_cache, schools_by_name, cache,
                   now, last>>

\* load has returned: refresh and get_all_schools return its list, the
\* lookups read their index (lines 374 and 380-381)
Return(t) ==
    /\ threads[t].pc = "loaded"
    /\ threads' = [threads EXCEPT ![t] = IdleThread]
    /\ last' = [Idle EXCEPT
          !.op = threads[t].op,
          !.arg = threads[t].arg,
          !.count = Len(threads[t].schools),
          !.returned_none =
              CASE threads[t].op = "get_school_by_name" ->
                       threads[t].arg \notin DOMAIN schools_by_name
                [] threads[t].op = "get_school_by_urn" ->
                       clean_urn(threads[t].arg).value \notin DOMAIN schools_by_urn
                [] OTHER -> FALSE,
          !.had_entry = schools_cache # NoSchools]
    /\ UNCHANGED <<feedA, feedB, loader_source, schools_cache, schools_by_name,
                   schools_by_urn, cache, now>>

\* one School, Oak, in both feeds; the loader has loaded it
InitRefresh ==
    /\ feedA = << [urn |-> Urn100, school_name |-> Oak] >>
    /\ feedB = << [URN |-> Urn100, SchoolName |-> <<"O", "A", "K">>, status |-> SUCCESS] >>
    /\ loader_source = DATA_SOURCE
    /\ \E ld \in LoadOutcomes(NoSchools, <<>>, <<>>, feedA, feedB, loader_source) :
          /\ schools_cache = ld.cache
          /\ schools_by_name = ld.by_name
          /\ schools_by_urn = ld.by_urn
    /\ threads = [t \in {"refresher", "reader"} |-> IdleThread]
    /\ cache = <<>>
    /\ now = 0
    /\ last = Idle

SpecRefresh ==
    /\ InitRefresh
    /\ [][
        \E t \in DOMAIN threads :
            \/ Call(t) \/ ClearCache(t) \/ ClearByName(t) \/ ClearByUrn(t) \/ LoadCheck(t)
            \/ LoadRead(t) \/ SetCache(t) \/ SetByName(t) \/ SetByUrn(t) \/ Return(t)
       ]_vars

(***************************************************************************)
(* A forced request as the steps between which it waits for a generator.   *)
(* chains.ofsted_chain and chains.conversation_chain bound every call by   *)
(* their default timeout: a call that got no answer ends by raising, so a  *)
(* call in flight always ends (the fairness of SpecTimeout).  The loader   *)
(* has loaded its one School, Oak.                                         *)
(***************************************************************************)
TimedOut == Outcome("timeout", <<>>, <<>>)

\* get_school_intelligence_with_ofsted(school_name, force_refresh=True, ...)
\* up to its first generator call
BeginRequest(school_name, num_starters, include_ofsted) ==
    /\ last.op \notin {"calling_ofsted", "calling_financial"}
    /\ last' = [Request("with_ofsted", school_name, TRUE, num_starters, include_ofsted)
                   EXCEPT !.op = IF OfstedCalled(include_ofsted) THEN "calling_ofsted"
                                 ELSE "calling_financial"]
    /\ UNCHANGED <<frame_files, schools_cache, schools_by_name, schools_by_urn, cache, now>>

\* ofsted_chain.analyze ends (line 853); chain.generate is called next
OfstedAnswers(ofsted_result) ==
    /\ last.op = "calling_ofsted"
    /\ last' = [last EXCEPT !.op = "calling_financial", !.ofsted_result = ofsted_result]
    /\ UNCHANGED <<frame_files, schools_cache, schools_by_name, schools_by_urn, cache, now>>

\* chain.generate ends (line 903) and the request runs to its return
FinancialAnswers(response) ==
    /\ last.op = "calling_financial"
    /\ get_school_intelligence_with_ofsted(last.school_name, TRUE, last.num_starters,
           last.include_ofsted, {last.ofsted_result}, {response})

\* a generator call ends, by one of its outcomes or by its timeout
Answering ==
    \/ \E ofsted_result \in OfstedResults \cup {TimedOut} : OfstedAnswers(ofsted_result)
    \/ \E response \in Responses \cup {TimedOut} : FinancialAnswers(response)

SpecTimeout ==
    /\ InitRefresh
    /\ [][
        \/ \E num_starters \in 1..MaxStarters, include_ofsted \in BOOLEAN :
              BeginRequest(Oak, num_starters, include_ofsted)
        \/ Answering
       ]_vars
    /\ WF_vars(Answering)

(***************************************************************************)
(* The functions of the loader and of the School on their own: each is     *)
(* applied to any value of the sets below                                  *)
(***************************************************************************)
\* DataLoader._clean_urn applied to a cell, and again to what it returned
CleanUrn(urn) ==
    /\ last' = [Idle EXCEPT !.op = "clean_urn", !.arg = urn,
                            !.result = clean_urn(urn),
                            !.again = IF clean_urn(urn).raised THEN Raised
                                      ELSE clean_urn(clean_urn(urn).value)]
    /\ UNCHANGED <<frame_files, schools_cache, schools_by_name, schools_by_urn, cache, now>>

\* DataLoader._safe_float applied to a cell
SafeFloat(value) ==
    /\ last' = [Idle EXCEPT !.op = "safe_float", !.arg = value, !.result = safe_float(value)]
    /\ UNCHANGED <<frame_files, schools_cache, schools_by_name, schools_by_urn, cache, now>>

\* DataLoader._safe_int applied to a cell
SafeInt(value) ==
    /\ last' = [Idle EXCEPT !.op = "safe_int", !.arg = value, !.result = safe_int(value)]
    /\ UNCHANGED <<frame_files, schools_cache, schools_by_name, schools_by_urn, cache, now>>

\* School.get_sales_priority asked of two Schools
GetSalesPriority(school_a, school_b) ==
    /\ last' = [Idle EXCEPT !.op = "priority", !.arg = <<school_a, school_b>>,
                            !.result = <<get_sales_priority(school_a),
                                         get_sales_priority(school_b)>>]
    /\ UNCHANGED <<frame_files, schools_cache, schools_by_name, schools_by_urn, cache, now>>

\* lines 886-898 for a requested count and a number of collected
\* inspection points
FinancialNeeded(num_starters, ofsted_count) ==
    /\ last' = [Idle EXCEPT !.op = "financial_needed", !.num_starters = num_starters,
                            !.count = ofsted_count,
                            !.financial_asked = financial_needed(num_starters, ofsted_count)]
    /\ UNCHANGED <<frame_files, schools_cache, schools_by_name, schools_by_urn, cache, now>>

Urn123 == <<"1", "2", "3">>

\* number cells: absent, empty, nan in three spellings, words, the two
\* infinities, and numbers with and without sign, point and blanks
NumberTexts ==
    {None, EmptyStr, NAN, <<"N", "a", "N">>, <<" ", "n", "a", "n", " ">>, <<" ">>,
     <<"a", "b", "c">>, <<"1", ".", "2", ".", "3">>, <<"-">>, <<"i", "n", "f">>,
     <<"-", "i", "n", "f">>, <<"0">>, <<"7">>, <<"7", ".", "9">>, <<"-", "7", ".", "9">>,
     <<" ", "1", "2", " ">>, <<".", "5">>, <<"+", "4">>}

\* Schools that differ in their financial record only: the total staffing
\* cost is absent, nan, infinite or an amount on either side of the two
\* thresholds, the agency cost absent, nothing or above both
PricedSchools ==
    {School(Urn100, Oak, Absent, None, NoFinancial)}
    \cup {School(Urn100, Oak, Absent, None,
                 FinancialData(Absent, Absent, safe_float(spend).value,
                               safe_float(agency).value)) :
            spend \in {None, <<" ", "n", "a", "n", " ">>, INF, <<"-", "i", "n", "f">>,
                       <<"0">>, <<"-", "1">>,
                       <<"1", "9", "9", "9", "9", "9", ".", "9", "9">>,
                       <<"2", "0", "0", "0", "0", "0">>,
                       <<"4", "9", "9", "9", "9", "9", ".", "9", "9">>,
                       <<"5", "0", "0", "0", "0", "0">>, <<"6", "0", "0", "0", "0", "0">>},
            agency \in {None, <<"0">>, <<"6", "0", "0", "0", "0", "0">>}}

InitValues ==
    /\ feedA = <<>>
    /\ feedB = <<>>
    /\ schools_cache = NoSchools
    /\ schools_by_name = <<>>
    /\ schools_by_urn = <<>>
    /\ loader_source = DATA_SOURCE
    /\ threads = NoThreads
    /\ cache = <<>>
    /\ now = 0
    /\ last = Idle

\* identifier cells are those of RawUrns and three spellings of 123
SpecValues ==
    /\ InitValues
    /\ [][
        \/ \E urn \in RawUrns \cup {Urn123, <<"1", "2", "3", ".", "0">>, <<" ", "1", "2", "3", " ">>} :
              CleanUrn(urn)
        \/ \E value \in NumberTexts : SafeFloat(value)
        \/ \E value \in NumberTexts : SafeInt(value)
        \/ \E school_a \in PricedSchools, school_b \in PricedSchools :
              GetSalesPriority(school_a, school_b)
        \/ \E num_starters \in 1..(2 * MaxCount), ofsted_count \in 0..(2 * MaxCount) :
              FinancialNeeded(num_starters, ofsted_count)
       ]_vars

(***************************************************************************)
(* Steps 5 and 6 of the augmented request on their own: lines 910-944      *)
(* applied to the output of the inspection generator and the output of the *)
(* financial generator.  all_starters holds the inspection output first    *)
(* (line 871 runs before line 902); the list the same lines give when the  *)
(* financial output is collected first is recorded next to it.             *)
(***************************************************************************)
InitOutputs ==
    /\ feedA = <<>>
    /\ feedB = <<>>
    /\ schools_cache = NoSchools
    /\ schools_by_name = <<>>
    /\ schools_by_urn = <<>>
    /\ loader_source = DATA_SOURCE
    /\ threads = NoThreads
    /\ cache = <<>>
    /\ now = 0
    /\ \E ofsted_output \in SeqsUpTo({O1, O2}, MaxStarters),
          financial_output \in SeqsUpTo({F1, F4, ConversationStarter("Budget", "f5", FIN),
                                         ConversationStarter("Agency", "f6", None)}, MaxCount - 2),
          num_starters \in 1..MaxCount :
          last = [Idle EXCEPT !.op = "collected", !.arg = <<ofsted_output, financial_output>>,
                              !.num_starters = num_starters]

BalanceAndDedupe ==
    /\ last.op = "collected"
    /\ last' = [last EXCEPT !.op = "balanced",
                            !.balanced = balanced_starters(last.arg[1] \o last.arg[2], last.num_starters),
                            !.starters = FinalStarters(last.arg[1] \o last.arg[2], last.num_starters),
                            !.again = FinalStarters(last.arg[2] \o last.arg[1], last.num_starters)]
    /\ UNCHANGED <<frame_files, schools_cache, schools_by_name, schools_by_urn, cache, now>>

SpecOutputs == InitOutputs /\ [][BalanceAndDedupe]_vars

(***************************************************************************)
(* Properties.  An operation never moves the clock, so  now' = now  picks  *)
(* the steps that are operations; last is the operation before the step    *)
(* and last' the operation of the step.                                    *)
(***************************************************************************)
IsRequest(l) == l.op \in {"plain", "with_ofsted"}

Served(l) == IsRequest(l) /\ ~l.raised /\ ~l.returned_none

Generated(l) == Served(l) /\ ~l.hit

Topics(starters) == {starters[i].topic : i \in DOMAIN starters}

DistinctTopics(starters) == Cardinality(Topics(starters)) = Len(starters)

Elements(seq) == {seq[i] : i \in DOMAIN seq}

\* C1: starting from an empty cache, two inspection-augmented requests for the
\* same school without force-refresh, the second within the time-to-live of
\* the first, call each generator exactly once in total, whatever the
\* generators returned to the first request.
C1_OneCallEach ==
    [][(/\ now' = now
        /\ Served(last) /\ Served(last')
        /\ last.op = "with_ofsted" /\ last'.op = "with_ofsted"
        /\ last.include_ofsted /\ last'.include_ofsted
        /\ ~last.force_refresh /\ ~last'.force_refresh
        /\ last.school_name = last'.school_name
        /\ ~last.had_entry
        /\ now - last.at <= CACHE_TTL_HOURS)
       => /\ last.ofsted_calls + last'.ofsted_calls = 1
          /\ last.financial_calls + last'.financial_calls = 1]_vars

\* C2: set(id, points) followed by get(id) within the time-to-live returns a
\* list that decodes to points (the empty list included); past the
\* time-to-live the get misses, and a get that follows a miss with no set in
\* between misses too.
C2_RoundTrip ==
    [][(now' = now /\ last'.op = "get" /\ last.urn = last'.urn)
       => /\ last.op = "set"
             => IF now - last.at <= CACHE_TTL_HOURS
                THEN /\ ~last'.got.none
                     /\ FromDicts(last'.got.list) = last.starters
                ELSE last'.got.none
          /\ (last.op = "get" /\ last.got.none) => last'.got.none]_vars

C2_Witness ==
    /\ last.op = "get"
    /\ last.got.none
    /\ cache_key(last.urn) \in DOMAIN cache
    /\ cache[cache_key(last.urn)].starters # <<>>
    /\ now - cache[cache_key(last.urn)].cached_at > CACHE_TTL_HOURS

\* the case of C3: the inspection generator answered with an error result
\* and the financial generator succeeded
C3_Case ==
    /\ last.op = "with_ofsted" /\ Generated(last)
    /\ last.ofsted_calls = 1 /\ last.ofsted_result.kind = "error"
    /\ last.financial_calls = 1 /\ last.response.kind = "ok"

\* C3 as claimed: in that case the returned list has exactly
\* min(requested, N) entries and none of them is inspection-sourced.
C3_ExactCount ==
    C3_Case =>
        /\ Len(last.starters) = Min(last.num_starters, Len(last.response.conversation_starters))
        /\ \A s \in Elements(last.starters) : ~IsOfstedSourced(s)

\* C3 amended: in that case the returned list has at most min(requested, N)
\* entries, exactly that many when the N financial points have pairwise
\* distinct topics; every entry is one of the financial generator's points,
\* and none has a source starting with "http" unless the financial generator
\* returned such a point.
C3_Degrades ==
    C3_Case =>
        LET points == last.response.conversation_starters
            bound == Min(last.num_starters, Len(points))
        IN  /\ Len(last.starters) <= bound
            /\ DistinctTopics(points) => Len(last.starters) = bound
            /\ Elements(last.starters) \subseteq Elements(points)
            /\ (\A p \in Elements(points) : ~IsOfstedSourced(p))
                   => \A s \in Elements(last.starters) : ~IsOfstedSourced(s)

C3_Witness ==
    /\ C3_Case
    /\ ~DistinctTopics(last.response.conversation_starters)
    /\ Len(last.starters) > 0
    /\ Len(last.starters)
           < Min(last.num_starters, Len(last.response.conversation_starters))

\* C4: a request without force-refresh for a school whose cache entry exists
\* and is within the time-to-live ends at the cache hit: no generator is
\* called, the cache is left as it was and the School's talking points are
\* the cached list.
C4_HitWhenFresh ==
    [][(/\ now' = now
        /\ Served(last')
        /\ ~last'.force_refresh
        /\ cache_key(last'.urn) \in DOMAIN cache
        /\ now - cache[cache_key(last'.urn)].cached_at <= CACHE_TTL_HOURS)
       => /\ last'.hit
          /\ last'.ofsted_calls = 0 /\ last'.financial_calls = 0
          /\ cache' = cache
          /\ last'.starters
                 = FromDicts(cache[cache_key(last'.urn)].starters)]_vars

\* C5: when every generator a request calls fails, the School is returned
\* with an empty talking-point list, whatever earlier requests produced.
C5_EmptyWhenAllFail ==
    (/\ Generated(last)
     /\ last.ofsted_calls + last.financial_calls > 0
     /\ last.ofsted_calls = 1 => last.ofsted_result.kind \in {"raise", "error"}
     /\ last.financial_calls = 1 => last.response.kind = "raise")
    => last.starters = <<>>

\* C6: a request for a name the name index does not have returns null, calls
\* no generator and leaves the cache and every School as they were; a request
\* for a name it has neither raises nor returns null, whatever the
\* generators do.
C6_OnlyNotFound ==
    [][(now' = now /\ IsRequest(last'))
       => /\ ~last'.raised
          /\ IF last'.school_name \in DOMAIN schools_by_name'
             THEN ~last'.returned_none
             ELSE /\ last'.returned_none
                  /\ last'.ofsted_calls = 0 /\ last'.financial_calls = 0
                  /\ cache' = cache
                  /\ schools_cache # NoSchools => schools_cache' = schools_cache
                  /\ \A i \in DOMAIN schools_cache' :
                        schools_cache = NoSchools =>
                            /\ schools_cache'[i].conversation_starters = <<>>
                            /\ schools_cache'[i].ofsted = NoOfsted]_vars

C6_Witness ==
    /\ IsRequest(last)
    /\ last.returned_none
    /\ last.school_name = Ash
    /\ cache_key(Urn100) \in DOMAIN cache
    /\ \E i \in DOMAIN schools_cache : schools_cache[i].conversation_starters # <<>>

\* C7 as claimed: every inspection-augmented request that returns a School
\* returns at most the requested count of talking points.
C7_AtMostRequested ==
    (last.op = "with_ofsted" /\ Served(last))
        => Len(last.starters) <= last.num_starters

\* C7 amended: every inspection-augmented request that is not served from
\* the cache returns at most the requested count of talking points; one that
\* is served from the cache returns the whole cached list, whatever count was
\* requested.
C7_AtMostRequestedWhenGenerated ==
    (last.op = "with_ofsted" /\ Served(last))
        => IF last.hit
           THEN last.starters = FromDicts(cache[cache_key(last.urn)].starters)
           ELSE Len(last.starters) <= last.num_starters

C7_Witness ==
    /\ last.op = "with_ofsted" /\ Generated(last)
    /\ last.had_entry
    /\ Len(last.ofsted_result.conversation_starters)
           + Len(last.response.conversation_starters) > last.num_starters
    /\ Len(last.starters) = last.num_starters

\* the positions of seq that hold the first point of their topic
FirstOfTopic(seq) ==
    {i \in DOMAIN seq : \A j \in 1..(i - 1) : seq[j].topic # seq[i].topic}

\* C8: the list an inspection-augmented request generates has no two points
\* of the same topic: it is the interleaved list with every point dropped
\* whose topic an earlier point has, the others in their order.
C8_FirstOfEachTopic ==
    (last.op = "with_ofsted" /\ Generated(last))
    => LET firsts == FirstOfTopic(last.balanced)
           nth(k) == CHOOSE i \in firsts : Cardinality({j \in firsts : j <= i}) = k
       IN  /\ DistinctTopics(last.starters)
           /\ last.starters = [k \in 1..Cardinality(firsts) |-> last.balanced[nth(k)]]

C8_Witness ==
    /\ last.op = "with_ofsted" /\ Generated(last)
    /\ Len(last.starters) > 0
    /\ \E i, j \in DOMAIN last.balanced :
          /\ i < j
          /\ last.balanced[i].topic = last.balanced[j].topic
          /\ last.balanced[i].detail # last.balanced[j].detail
          /\ last.balanced[i] \in Elements(last.starters)
          /\ last.balanced[j] \notin Elements(last.starters)

\* C9: an inspection-augmented request that does not end at a cache hit
\* leaves the entry of the school's identifier holding the returned list,
\* written at the time of the request, and every other entry as it was.
C9_Persisted ==
    [][(now' = now /\ last'.op = "with_ofsted" /\ Generated(last'))
       => LET key == cache_key(last'.urn)
          IN  /\ DOMAIN cache' = DOMAIN cache \cup {key}
              /\ FromDicts(cache'[key].starters) = last'.starters
              /\ cache'[key].cached_at = now
              /\ \A k \in DOMAIN cache \ {key} : cache'[k] = cache[k]]_vars

C9_Witness ==
    /\ last.op = "with_ofsted" /\ Generated(last)
    /\ last.force_refresh
    /\ last.had_entry
    /\ ListTruthy(cache_get(cache, now, Urn200))
    /\ last.starters = <<>>
    /\ cache[cache_key(last.urn)].starters = <<>>

\* an identifier cell from which no School is to be made: null, empty,
\* blank, nan in any case and with whitespace around it, or text that is
\* not a number with an integer value
Unusable(raw) ==
    \/ IsNone(raw)
    \/ Strip(raw) = EmptyStr
    \/ Lower(Strip(raw)) = NAN
    \/ ParseFloat(raw).kind # "num"

\* the identifier cells of the rows the loader reads: every row of the GIAS
\* file, the rows of the financial file that are not marked as failed
Cells ==
    {Or(Get(feedA[i], "urn"), Get(feedA[i], "URN")) : i \in DOMAIN feedA}
    \cup {Or(Get(feedB[i], "URN"), Get(feedB[i], "urn")) :
            i \in {j \in DOMAIN feedB : Get(feedB[j], "status") = SUCCESS}}

\* C10: a load from a supported source completes whatever the identifier
\* cells hold, and its Schools are those of the rows with a usable
\* identifier: none is made from a row whose identifier is unusable.
C10_BadRowsExcluded ==
    (last.op = "load" /\ loader_source \in {"csv", "databricks"})
    => /\ ~last.raised
       /\ {schools_cache[i].urn : i \in DOMAIN schools_cache}
              = {IntToStr(ParseFloat(c).int) : c \in {d \in Cells : ~Unusable(d)}}

\* C11: normalising an identifier again gives the same identifier, for every
\* cell from which normalisation yields an identifier; "123.0", "123" and
\* " 123 " all normalise to "123".
C11_Idempotent ==
    last.op = "clean_urn"
    => /\ (~last.result.raised /\ Truthy(last.result.value))
              => last.again = last.result
       /\ last.arg \in {Urn123, <<"1", "2", "3", ".", "0">>, <<" ", "1", "2", "3", " ">>}
              => last.result = Returned(Urn123)

\* the tiers in their order
TierRank(tier) ==
    CASE tier = "HIGH" -> 3 [] tier = "MEDIUM" -> 2 [] tier = "LOW" -> 1 [] OTHER -> 0

\* x > y for two present floats; false when either is nan
FloatGT(x, y) ==
    CASE x.kind = "nan" \/ y.kind = "nan" -> FALSE
      [] x.kind = "inf" /\ y.kind = "inf" -> ~x.neg /\ y.neg
      [] x.kind = "inf" -> ~x.neg
      [] y.kind = "inf" -> y.neg
      [] OTHER -> x.cents > y.cents

\* the tier the claim gives a School whose total staffing cost is cost
TierOf(cost) ==
    IF cost.kind = "none" THEN "UNKNOWN"
    ELSE IF cost.kind = "inf" /\ ~cost.neg THEN "HIGH"
    ELSE IF cost.kind = "num" /\ cost.cents >= 50000000 THEN "HIGH"
    ELSE IF cost.kind = "num" /\ cost.cents >= 20000000 THEN "MEDIUM"
    ELSE "LOW"

InA == {feedA[i]["urn"] : i \in DOMAIN feedA}

InB == {feedB[i]["URN"] : i \in DOMAIN feedB}

\* the row a feed ends up with for identifier u: the last one
RowOfA(u) ==
    feedA[CHOOSE i \in DOMAIN feedA :
            feedA[i]["urn"] = u /\ \A j \in DOMAIN feedA : feedA[j]["urn"] = u => j <= i]

RowOfB(u) ==
    feedB[CHOOSE i \in DOMAIN feedB :
            feedB[i]["URN"] = u /\ \A j \in DOMAIN feedB : feedB[j]["URN"] = u => j <= i]

HasName(row) == NameColumns \cap DOMAIN row # {}

\* the school name of a row, under whichever candidate column its feed uses
NameIn(row) == row[CHOOSE c \in NameColumns : c \in DOMAIN row]

\* C13: a School whose identifier is in both feeds, with differing names,
\* has the name of the GIAS feed, whichever candidate name column each feed
\* uses.
C13_NameFromFeedA ==
    last.op = "load"
    => \A i \in DOMAIN schools_cache :
          LET u == schools_cache[i].urn
          IN  (/\ u \in InA \cap InB
               /\ HasName(RowOfB(u))
               /\ NameIn(RowOfA(u)) # NameIn(RowOfB(u)))
              => schools_cache[i].school_name = NameIn(RowOfA(u))

\* the amount a money cell holds
AmountIn(cell) == IF cell = EmptyStr THEN Absent ELSE ParseFloat(cell)

\* C14: for a School whose identifier is in both feeds, the total staffing
\* cost is the one of the financial feed's own row although the GIAS row has
\* a column of that name with another value, and the headteacher is the one
\* of the GIAS row; with a financial row of 550000 and no name, and a GIAS
\* row naming the school Oak and its head Jane, the School is Oak, its
\* headteacher Jane and its tier HIGH.
C14_MoneyFromFeedB ==
    last.op = "load"
    => \A i \in DOMAIN schools_cache :
          LET u == schools_cache[i].urn
              school == schools_cache[i]
          IN  u \in InA \cap InB
              => /\ school.financial.present
                 /\ school.financial.total_teaching_support_costs
                        = AmountIn(RowOfB(u)["total_teaching_support_costs"])
                 /\ school.headteacher
                        = (IF RowOfA(u)["headteacher"] = EmptyStr THEN None
                           ELSE RowOfA(u)["headteacher"])
                 /\ (/\ ~HasName(RowOfB(u))
                     /\ RowOfA(u)["headteacher"] = Jane
                     /\ RowOfB(u)["total_teaching_support_costs"]
                            = <<"5", "5", "0", "0", "0", "0">>)
                    => /\ school.school_name = Oak
                       /\ school.headteacher = Jane
                       /\ get_sales_priority(school) = "HIGH"

C14_Witness ==
    /\ last.op = "load"
    /\ \E i \in DOMAIN schools_cache :
          /\ schools_cache[i].urn = Urn500
          /\ Urn500 \in InA \cap InB
          /\ ~HasName(RowOfB(Urn500))
          /\ RowOfA(Urn500)["total_teaching_support_costs"]
                 # RowOfB(Urn500)["total_teaching_support_costs"]
          /\ schools_cache[i].school_name = Oak
          /\ schools_cache[i].headteacher = Jane
          /\ get_sales_priority(schools_cache[i]) = "HIGH"

\* the pupil count cell of the merged row of identifier u: the GIAS row's
\* pupil_count, or the financial row's TotalPupils when that is empty
PupilCell(u) ==
    LET a == IF u \in InA THEN RowOfA(u)["pupil_count"] ELSE EmptyStr
    IN  IF a # EmptyStr THEN a
        ELSE IF u \in InB THEN RowOfB(u)["TotalPupils"] ELSE EmptyStr

\* the identifiers whose merged row converts to a School
Convertible == {u \in InA \cup InB : PupilCell(u) # INF}

\* C15: a merged row whose conversion raises is skipped: the load completes
\* and returns exactly one School for each identifier of the two feeds whose
\* conversion succeeds, and none for the others.
C15_BadRowSkipped ==
    last.op = "load"
    => /\ ~last.raised
       /\ {schools_cache[i].urn : i \in DOMAIN schools_cache} = Convertible
       /\ Len(schools_cache) = Cardinality(Convertible)

C15_Witness ==
    /\ last.op = "load"
    /\ ~last.raised
    /\ Len(schools_cache) = 2
    /\ Cardinality(InA \cup InB) = 3
    /\ \E u \in InA \cup InB : PupilCell(u) = INF /\ u \notin DOMAIN schools_by_urn


\* a cell that is empty, null or the text nan
IsBlankNumber(value) == IsNone(value) \/ value = EmptyStr \/ Lower(value) = NAN

\* C16: the int and float coercions never raise; they return the converted
\* number or absent, and absent for an empty, null or nan cell and for
\* every cell that float() does not parse.
C16_CoercionNeverRaises ==
    last.op \in {"safe_float", "safe_int"}
    => /\ ~last.result.raised
       /\ IsBlankNumber(last.arg) => last.result.value = Absent
       /\ (~IsNone(last.arg) /\ ParseFloat(last.arg).kind = "err")
              => last.result.value = Absent
       /\ last.op = "safe_int" => last.result.value.kind \in {"num", "none"}


\* C17: a load raises exactly when the data-source selector is not a
\* supported one, and a load that raises leaves the school list unset and
\* both indexes empty, so that every later load raises again.
C17_OnlyUnknownSourceRaises ==
    last.op = "load"
    => /\ last.raised <=> loader_source \notin {"csv", "databricks"}
       /\ last.raised => /\ schools_cache = NoSchools
                         /\ schools_by_name = <<>>
                         /\ schools_by_urn = <<>>


\* C18: a reader interleaved with a refresh sees the complete school list
\* and indexes, those before or those after the refresh: a lookup of Oak by
\* name or by identifier finds it, and the list a reader is handed has the
\* School.
C18_AtomicRefresh ==
    /\ (last.op = "get_school_by_name" /\ last.arg = Oak) => ~last.returned_none
    /\ last.op = "get_school_by_urn" => ~last.returned_none
    /\ last.op = "get_all_schools" => last.count = 1

\* a cache file that is not what a completed set writes
Malformed(data) ==
    \/ ~({"cached_at", "starters"} \subseteq DOMAIN data)
    \/ FromDictsRaises(data.starters)

\* C19: no cache failure propagates.  A get on a malformed entry misses, and
\* a request without force-refresh for a school whose entry is malformed
\* does not raise: it goes on to generation.
C19_NoCacheFailure ==
    [][/\ (/\ last'.op = "get" /\ now' = now
           /\ cache_key(last'.urn) \in DOMAIN cache
           /\ Malformed(cache[cache_key(last'.urn)]))
          => last'.got.none
       /\ (/\ IsRequest(last') /\ now' = now
           /\ cache_key(Urn100) \in DOMAIN cache
           /\ Malformed(cache[cache_key(Urn100)]))
          => Generated(last')]_vars

GenerationFailed(l) ==
    \/ l.ofsted_calls = 1 /\ l.ofsted_result.kind \in {"raise", "error"}
    \/ l.financial_calls = 1 /\ l.response.kind = "raise"

\* C21: a request calls each generator at most once, and the request that
\* follows a request in which a generator failed, for the same school and
\* within the time-to-live, calls a generator only if it has force-refresh.
C21_NoRetry ==
    [][(now' = now /\ IsRequest(last'))
       => /\ last'.ofsted_calls <= 1 /\ last'.financial_calls <= 1
          /\ (/\ Served(last) /\ GenerationFailed(last)
              /\ last'.school_name = last.school_name
              /\ now - last.at <= CACHE_TTL_HOURS
              /\ ~last'.force_refresh)
             => last'.ofsted_calls + last'.financial_calls = 0]_vars

C23_FinancialCount ==
    last.op = "financial_needed"
    => LET n == last.num_starters
           k == last.count
           target == CHOOSE t \in 0..n : 10 * t <= 6 * n /\ 6 * n < 10 * (t + 1)
       IN  /\ k < target => last.financial_asked = Max(2, n - k)
           /\ k >= target => last.financial_asked = Max(2, n - target)
           /\ k + last.financial_asked >= n

C23_Witness ==
    /\ last.op = "financial_needed"
    /\ last.num_starters = 5 /\ last.count = 3
    /\ last.financial_asked = 2

\* the two pools of the partition at lines 912-913 for the collected outputs
C24_Pool(financial) ==
    SelectSeq(last.arg[1] \o last.arg[2],
              LAMBDA s : IF financial THEN IsFinancialSourced(s) ELSE IsOfstedSourced(s))

\* C24: the interleave has min(n, collected) entries; its inspection-sourced
\* entries are the first of the inspection pool in the pool's order and its
\* financial-sourced entries the first of the financial pool; position i
\* holds an inspection-sourced point when i mod 3 < 2 exactly if one was
\* left, and a financial-sourced point when i mod 3 = 2 exactly if one was
\* left; and with n = 5, two inspection points and three financial points
\* of distinct topics the final list is the two followed by the three.
C24_Interleave ==
    last.op = "balanced"
    => LET b == last.balanced
           n == last.num_starters
           taken(financial) ==
               SelectSeq(b, LAMBDA s : IF financial THEN IsFinancialSourced(s) ELSE IsOfstedSourced(s))
           before(i) == Cardinality({j \in 1..i : IsOfstedSourced(b[j])})
       IN  /\ Len(b) = Min(n, Len(last.arg[1]) + Len(last.arg[2]))
           /\ \A financial \in BOOLEAN :
                  taken(financial) = SubSeq(C24_Pool(financial), 1, Len(taken(financial)))
           /\ \A i \in 0..(Len(b) - 1) :
                  IF i % 3 < 2
                  THEN IsOfstedSourced(b[i + 1]) <=> before(i) < Len(C24_Pool(FALSE))
                  ELSE IsFinancialSourced(b[i + 1]) <=> (i - before(i)) < Len(C24_Pool(TRUE))
           /\ (/\ n = 5 /\ Len(last.arg[1]) = 2 /\ Len(last.arg[2]) = 3
               /\ C24_Pool(FALSE) = last.arg[1] /\ C24_Pool(TRUE) = last.arg[2]
               /\ DistinctTopics(last.arg[1] \o last.arg[2]))
              => /\ Len(last.starters) = 5
                 /\ SubSeq(last.starters, 1, 2) = last.arg[1]
                 /\ SubSeq(last.starters, 3, 5) = last.arg[2]

C24_Witness ==
    /\ last.op = "balanced" /\ last.num_starters = 5
    /\ Len(last.arg[1]) = 2 /\ Len(last.arg[2]) = 3
    /\ C24_Pool(FALSE) = last.arg[1] /\ C24_Pool(TRUE) = last.arg[2]
    /\ DistinctTopics(last.arg[1] \o last.arg[2])
    /\ last.starters = last.arg[1] \o last.arg[2]

C25_LastWriteWins ==
    [][last'.op = "get"
       => /\ (threads = NoThreads /\ last.op = "set" /\ last'.urn = last.urn)
                 => last'.got = SomeList(DumpAll(last.starters))
          /\ \/ last'.got = NoList
             \/ \E starters \in {<<>>, <<F1>>, <<F3>>, <<F1, F3>>} :
                    last'.got = SomeList(DumpAll(starters))]_vars

\* C27: once a load or a refresh has completed, no two Schools of the list
\* have the same identifier, the identifier index has exactly the
\* identifiers of the list and maps each to the School that has it, and
\* every entry of the name index maps a name to a School of the list that
\* has that name.
C27_Indexes ==
    schools_cache # NoSchools
    => /\ \A i, j \in DOMAIN schools_cache :
              schools_cache[i].urn = schools_cache[j].urn => i = j
       /\ DOMAIN schools_by_urn = {schools_cache[i].urn : i \in DOMAIN schools_cache}
       /\ \A urn \in DOMAIN schools_by_urn :
              /\ schools_by_urn[urn] \in DOMAIN schools_cache
              /\ schools_cache[schools_by_urn[urn]].urn = urn
       /\ \A name \in DOMAIN schools_by_name :
              /\ schools_by_name[name] \in DOMAIN schools_cache
              /\ schools_cache[schools_by_name[name]].school_name = name

C27_Witness ==
    /\ last.op = "refresh" /\ ~last.raised
    /\ Len(schools_cache) >= 2
    /\ Cardinality(DOMAIN schools_by_name) < Len(schools_cache)
    /\ Len(feedA) + Len(feedB) > Len(schools_cache)

\* C28: an entry one variant wrote is served by the other variant: when the
\* request before wrote the school's entry and the next request, within
\* the time-to-live and without force-refresh, is of the other variant,
\* that request is a cache hit, calls no generator and returns the list
\* written, whatever count or inspection flag it was given.
C28_SharedEntry ==
    [][(/\ now' = now
        /\ Generated(last) /\ Served(last')
        /\ last'.op # last.op
        /\ last'.school_name = last.school_name
        /\ ~last'.force_refresh
        /\ cache_key(last.urn) \in DOMAIN cache
        /\ cache[cache_key(last.urn)] = [school_urn |-> last.urn, cached_at |-> last.at,
                                         starters |-> DumpAll(last.starters)]
        /\ now - last.at <= CACHE_TTL_HOURS)
       => /\ last'.hit
          /\ last'.ofsted_calls = 0 /\ last'.financial_calls = 0
          /\ last'.starters = last.starters]_vars

\* the talking points of the School the loader's name index holds for a name
C29_Stored(cached, by_name, name) == cached[by_name[name]].conversation_starters

\* C29: a request that returns a School leaves the returned list on the
\* School get_school_by_name gives for that name, and a request for another
\* school leaves it there; a refresh that completes leaves every School
\* with no talking points and no inspection record and the cache files as
\* they were.
C29_StoredOnSchool ==
    [][/\ Served(last')
          => C29_Stored(schools_cache', schools_by_name', last'.school_name) = last'.starters
       /\ (IsRequest(last') /\ schools_cache # NoSchools)
          => \A name \in DOMAIN schools_by_name \ {last'.school_name} :
                 /\ name \in DOMAIN schools_by_name'
                 /\ C29_Stored(schools_cache', schools_by_name', name)
                        = C29_Stored(schools_cache, schools_by_name, name)
       /\ (last'.op = "refresh" /\ ~last'.raised)
          => /\ \A i \in DOMAIN schools_cache' :
                    /\ schools_cache'[i].conversation_starters = <<>>
                    /\ schools_cache'[i].ofsted = NoOfsted
             /\ cache' = cache]_vars

\* a School holds a list, another School was asked for since, and the
\* cache has an entry for each
C29_Witness ==
    /\ Served(last) /\ last.school_name = Oak /\ last.starters # <<>>
    /\ C29_Stored(schools_cache, schools_by_name, Oak) = last.starters
    /\ C29_Stored(schools_cache, schools_by_name, Elm) = <<F3>>
    /\ schools_cache[schools_by_name[Oak]].ofsted # NoOfsted

\* the inspection record of the School of a request, before the request
C30_Before(name) ==
    IF schools_cache = NoSchools THEN NoOfsted ELSE schools_cache[schools_by_name[name]].ofsted

\* C30: an augmented request whose inspection step is skipped, raises or
\* returns an error result leaves the School's inspection record as it was
\* and stores the new final list, which holds points of this request's
\* generators only; a step that succeeds attaches a record with the first
\* five improvement areas at most.
C30_RecordKept ==
    [][(Served(last') /\ last'.op = "with_ofsted" /\ ~last'.hit)
       => LET school == schools_cache'[schools_by_name'[last'.school_name]]
              succeeded == last'.ofsted_calls = 1 /\ last'.ofsted_result.kind = "ok"
          IN  /\ ~succeeded => /\ school.ofsted = C30_Before(last'.school_name)
                               /\ school.conversation_starters = last'.starters
                               /\ Elements(last'.starters)
                                      \subseteq Elements(last'.response.conversation_starters)
              /\ succeeded => /\ school.ofsted.present
                              /\ Len(school.ofsted.areas_for_improvement) <= 5
                              /\ school.ofsted.areas_for_improvement
                                     = SubSeq(last'.ofsted_result.improvements, 1,
                                              Len(school.ofsted.areas_for_improvement))
                              /\ Len(last'.ofsted_result.improvements) >= 5
                                     => Len(school.ofsted.areas_for_improvement) = 5]_vars

\* a request whose inspection step failed found a record of five areas, cut
\* from six, and talking points on the School; the record is still there
\* and the talking points are the new list
C30_Witness ==
    /\ Served(last) /\ last.op = "with_ofsted" /\ ~last.hit
    /\ last.ofsted_calls = 1 /\ last.ofsted_result.kind = "error"
    /\ last.starters = <<F1>>
    /\ Len(schools_cache[schools_by_name[last.school_name]].ofsted.areas_for_improvement) = 5
    /\ schools_cache[schools_by_name[last.school_name]].conversation_starters = <<F1>>

====
